---- MODULE Spec2Model ----
(***************************************************************************)
(* A model of the reliability core of bluesky-mcp:                         *)
(*   - the per-key sliding-window RateLimiter   (internal/handlers)        *)
(*   - the BlueskyClient retry loop and breaker (pkg/apiclient)            *)
(*   - the in-memory Cache                      (internal/cache)           *)
(*   - the TokenManager                         (internal/auth)            *)
(* Time is a discrete clock `now`; durations are scaled to clock ticks.    *)
(* Each component has its own specification (SpecRL, SpecClient,           *)
(* SpecCache and SpecLoader, SpecTM); the variables of the other           *)
(* components stay at their initial values.                                *)
(***************************************************************************)
EXTENDS Integers, Sequences, FiniteSets, TLC

\* ------------------------------------------------------------------ bounds
\* The clock of each specification stops at its bound.
MaxTimeRL == 5
MaxTimeClient == 3
MaxTimeCache == 2
MaxTimeLoader == 3
\* Set is called while stats.Evictions is below this.
MaxEvictions == 2
\* GetWithLoader calls are started while stats.StaleServed is below this.
MaxStaleServed == 2
MaxTimeTM == 3
\* The upstream issues sessions while it has issued fewer than this.
MaxIssued == 2
\* RegisterBackupCredentials is called while fewer than this are registered.
MaxBackups == 2
MaxTimeLogin == 3
MaxTimeGW == 1
\* HandleMCPRequest dispatches while fewer than this many requests have been.
MaxDispatched == 1
MaxTimeDispatch == 2
\* processMCPMethod is called on its own while fewer than this many calls have been made.
MaxCalls == 2
\* SpecPersist: time.Now() stops advancing here.
MaxTimePersist == 2
\* SpecLogin, SpecRetry: a retryOperation invokes its operation at most this many times.
MaxLoginAttempts == 3

\* ------------------------------------------------------- program constants
\* RateLimiter.windowSize, in ticks.
windowSize == 2
\* RateLimiter.maxRequests.
maxRequests == 2
\* RateLimiter.cleanupPeriod, in ticks.
cleanupPeriod == 3
\* BlueskyClient.CircuitBreaker.FailureThreshold.
FailureThreshold == 2
\* BlueskyClient.CircuitBreaker.ResetTimeout, in ticks.
ResetTimeout == 1
\* BlueskyClient.RetryConfig.MaxElapsedTime, in ticks.
MaxElapsedTime == 2
\* BlueskyClient.RetryConfig.MaxInterval, in ticks: the longest retry delay.
MaxInterval == 2
\* CacheOptions.MaxItems.
MaxItems == 2
\* CacheOptions.DefaultTTL, in ticks.
DefaultTTL == 2
\* CacheOptions.StaleTimeout, in ticks.
StaleTimeout == 2
\* The lifetime createSessionUnlocked and the refreshes give a session
\* ("time.Now().Add(1 * time.Hour)"), in ticks.
SessionTTL == 3
\* refreshThreshold, in ticks.
refreshThreshold == 2
\* isValidJWT: the least length of a well-formed token.
JWTMinLen == 100
\* auth.DefaultRetryConfig.MaxElapsedTime, in ticks.
AuthMaxElapsedTime == 3
\* auth.DefaultRetryConfig.MaxInterval, in ticks; the first intervals are
\* shorter than a tick.
AuthMaxInterval == 1
\* processMCPMethod: the capacity of resultCh and of errCh.
ChanCap == 1

VARIABLES
    now,          \* time.Now(), shared by all components
    \* --- RateLimiter
    requests,     \* rl.requests: map ip -> list of admission instants
    lastCleanup,  \* rl.lastCleanup
    admitted,     \* history: per ip, every instant at which Allow returned true
    rlReturn,     \* history: the last Allow call, [ip, at, ok]
    unswept,      \* a second limiter given the same calls, whose Allow never sweeps
    \* --- BlueskyClient
    currentFailures,    \* c.currentFailures
    isCircuitOpen,      \* c.isCircuitOpen
    circuitLastChecked, \* c.circuitLastChecked
    call,               \* per caller: the Get/Post call it is running
    openedAt,           \* history: the instant isCircuitOpen last went false -> true
    cbReturn,           \* history: what the last finished Get/Post returned
    trial,              \* history: half-open, no attempt recorded since the half-open write
    \* --- Cache
    items,              \* c.items: map key -> Item
    fallbackItems,      \* c.fallbackItems: map key -> Item (stale copies)
    evictions,          \* c.stats.Evictions
    staleServed,        \* c.stats.StaleServed
    allowStale,         \* c.options.AllowStaleOnFail
    cp,                 \* per goroutine: the cache call it is running
    gwlReturn,          \* history: what the last GetWithLoader returned after its loader
    lastSet,            \* history: per key, the last Set not followed by Delete/Clear
    evictedSince,       \* history: keys evicted by evictOldest since their last Set
    \* --- TokenManager
    session,            \* tm.session
    refreshing,         \* tm.refreshing
    bearer,             \* tm.client's authToken
    mutex,              \* tm.mutex: the GetToken caller holding the write lock, or ""
    backups,            \* backupCredentials: the BskyHost of each entry, in order
    tp,                 \* per caller: where it is in GetToken and after
    bg,                 \* the refreshInBackground goroutines
    issued,             \* sessions the upstream has issued
    tokenRet,           \* history: what the last GetToken returned
    \* --- Cache persistence
    disk,               \* the snapshot file under PersistOptions.Directory
    persisted,          \* history: the live map the file was last written from
    loadReturn,         \* history: the last startup load
    \* --- Cache, its locks
    mu,                 \* c.mu: [w: the goroutine holding Lock or "", r: those holding RLock]
    statsMu,            \* c.statsMu, likewise
    \* --- SubmitPost
    submitted,          \* history: the last createRecord request sent
    \* --- createSessionWithRetries over tm.client
    login,              \* the retryOperation of the credentials being tried
    posted,             \* history: the last createSession request sent, [cred, host]
    failRet,            \* createSessionWithRetries: its err, and what its last attempt returned
    \* --- TokenManager.Stop
    stopped,            \* tm.refreshCtx is cancelled
    \* --- HandleMCPRequest
    calls,              \* the processMCPMethod calls made so far, in order
    gwResp              \* history: the last response written

rlVars == <<requests, lastCleanup, admitted, rlReturn, unswept>>
cbVars == <<currentFailures, isCircuitOpen, circuitLastChecked, call, openedAt, cbReturn,
           trial>>
cacheVars == <<items, fallbackItems, evictions, staleServed, allowStale, cp,
               gwlReturn, lastSet, evictedSince>>
tmVars == <<session, refreshing, bearer, mutex, backups, tp, bg, issued, tokenRet>>
loginVars == <<login, posted, failRet>>
ctxVars == <<stopped>>
gwVars == <<calls, gwResp>>
persistVars == <<disk, persisted, loadReturn>>
lockVars == <<mu, statsMu>>
postVars == <<submitted>>
vars == <<now, rlVars, cbVars, cacheVars, tmVars, loginVars, ctxVars, gwVars, persistVars, lockVars, postVars>>
\* What the steps of the gateway leave alone.
notGW == <<cbVars, cacheVars, tmVars, loginVars, ctxVars, persistVars, lockVars, postVars>>
\* What the steps of one component leave alone.
notRL == <<cbVars, cacheVars, tmVars, loginVars, ctxVars, gwVars, persistVars, lockVars, postVars>>
notCB == <<rlVars, cacheVars, tmVars, loginVars, ctxVars, gwVars, persistVars, lockVars, postVars>>
notCache == <<rlVars, cbVars, tmVars, loginVars, ctxVars, gwVars, persistVars, lockVars, postVars>>
\* What the steps of a persisted cache, which write the cache and its file, leave alone.
notPersist == <<rlVars, cbVars, tmVars, loginVars, ctxVars, gwVars>>
\* What the steps of SubmitPost, which go through the token manager, leave alone.
notPost == <<rlVars, cbVars, cacheVars, loginVars, ctxVars, gwVars, persistVars, lockVars>>
notTM == <<rlVars, cbVars, cacheVars, loginVars, ctxVars, gwVars, persistVars, lockVars, postVars>>

\* ------------------------------------------------------------------ helpers
\* A Go map as a function whose domain is the set of keys present.
EmptyMap == [x \in {} |-> 0]
MapPut(m, k, v) == [x \in (DOMAIN m) \cup {k} |-> IF x = k THEN v ELSE m[x]]
MapDrop(m, ks) == [x \in (DOMAIN m) \ ks |-> m[x]]

\* ------------------------------------------------------------------- clock
Tick(max) ==
    /\ now < max
    /\ now' = now + 1

\* ============================================================ RateLimiter
\* The client keys (c.RealIP()) that send requests.
IPs == {"ip1", "ip2"}

\* The filter loop of Allow and of cleanup: keep t with t.After(cutoff).
ValidTimes(times, t) ==
    SelectSeq(times, LAMBDA x : x > t - windowSize)

\* Mutant of cleanup: the sweep empties the map.
cleanup_DropsAll(reqs, t) == EmptyMap

\* RateLimiter.cleanup(now): truncate every list, delete the empty ones.
cleanup(reqs, t) ==
    [ip \in {x \in DOMAIN reqs : Len(ValidTimes(reqs[x], t)) # 0}
        |-> ValidTimes(reqs[ip], t)]

\* Mutant of OverLimit: the limit test off by one.
OverLimit_OffByOne(validTimes) == Len(validTimes) > maxRequests

\* The limit test of Allow: reject when len(validTimes) >= maxRequests.
OverLimit(validTimes) == Len(validTimes) >= maxRequests

\* The map after the periodic sweep at the head of Allow.
SweptRequests ==
    IF now - lastCleanup > cleanupPeriod THEN cleanup(requests, now) ELSE requests

RLInit ==
    /\ requests = EmptyMap
    /\ lastCleanup = 0
    /\ admitted = [ip \in IPs |-> <<>>]
    /\ rlReturn = [ip |-> "", at |-> 0, ok |-> FALSE]
    /\ unswept = [requests |-> EmptyMap, ok |-> FALSE]

\* Allow(ip) without its "Clean up old entries periodically" block, on the
\* map reqs: the answer and the map it leaves.
AllowNoSweep(reqs, ip) ==
    LET times == IF ip \in DOMAIN reqs THEN reqs[ip] ELSE <<>>
        validTimes == ValidTimes(times, now)
    IN  IF OverLimit(validTimes)
          THEN [requests |-> reqs, ok |-> FALSE]
          ELSE [requests |-> MapPut(reqs, ip, Append(validTimes, now)), ok |-> TRUE]

\* Mutant of Allow: a rejected call is recorded like an admitted one.
Allow_RecordsRejected(ip) ==
    LET swept == SweptRequests
        times == IF ip \in DOMAIN swept THEN swept[ip] ELSE <<>>
        validTimes == ValidTimes(times, now)
    IN  /\ lastCleanup' = IF now - lastCleanup > cleanupPeriod THEN now ELSE lastCleanup
        /\ unswept' = AllowNoSweep(unswept.requests, ip)
        /\ requests' = MapPut(swept, ip, Append(validTimes, now))
        /\ IF OverLimit(validTimes)
             THEN /\ admitted' = admitted
                  /\ rlReturn' = [ip |-> ip, at |-> now, ok |-> FALSE]
             ELSE /\ admitted' = [admitted EXCEPT ![ip] = Append(@, now)]
                  /\ rlReturn' = [ip |-> ip, at |-> now, ok |-> TRUE]

\* RateLimiter.Allow(ip), the whole call under rl.mu.
Allow(ip) ==
    LET swept == SweptRequests
        times == IF ip \in DOMAIN swept THEN swept[ip] ELSE <<>>
        validTimes == ValidTimes(times, now)
    IN  /\ lastCleanup' = IF now - lastCleanup > cleanupPeriod THEN now ELSE lastCleanup
        /\ unswept' = AllowNoSweep(unswept.requests, ip)
        /\ IF OverLimit(validTimes)
             THEN /\ requests' = swept
                  /\ admitted' = admitted
                  /\ rlReturn' = [ip |-> ip, at |-> now, ok |-> FALSE]
             ELSE /\ requests' = MapPut(swept, ip, Append(validTimes, now))
                  /\ admitted' = [admitted EXCEPT ![ip] = Append(@, now)]
                  /\ rlReturn' = [ip |-> ip, at |-> now, ok |-> TRUE]


\* Number of admissions of ip with instants in the window (a - windowSize, a].
AdmittedIn(ip, a) ==
    Cardinality({i \in 1..Len(admitted[ip]) :
                    admitted[ip][i] > a - windowSize /\ admitted[ip][i] <= a})

\* C1: for every key, every rolling window of length windowSize, i.e. the
\* instants (a - W, a], holds at most maxRequests admitted Allow calls.
C1_RollingWindow ==
    \A ip \in IPs : \A a \in 0..(MaxTimeRL + windowSize) :
        AdmittedIn(ip, a) <= maxRequests

\* C1 witness: a key has a full window and a later admission after it slid,
\* and a cleanup sweep has run.
C1_Witness ==
    /\ lastCleanup > 0
    /\ \E ip \in IPs : Len(admitted[ip]) > maxRequests
    /\ rlReturn.ok = FALSE
\* ========================================================== BlueskyClient
\* The goroutines that call Get/Post on one shared client.
Callers == {"c1", "c2"}
\* Endpoints called through the client.
Endpoints == {"app.bsky.feed.getTimeline", "app.bsky.feed.getAuthorFeed"}
\* c.FallbackResponses after InitializeFallbacks: only the timeline has one.
FallbackResponses ==
    [ep \in {"app.bsky.feed.getTimeline"} |-> "timeline.json"]
\* isRetryableError over what an attempt can come to: a retryable error (5xx,
\* transport) or a permanent one (4xx, decode).
isRetryableError(e) == e = "retryable"

\* A caller between calls.
IdleCall ==
    [pc |-> "idle", ep |-> "", start |-> 0, wake |-> 0, dials |-> 0,
     \* history: at the breaker check the failure count had reached the
     \* threshold and ResetTimeout had not elapsed since the breaker opened
     tripped |-> FALSE,
     \* history: at the breaker check isCircuitOpen was set, ResetTimeout had
     \* elapsed since the breaker opened, and no call had passed the check since
     resetDue |-> FALSE,
     \* history: an attempt of this call was issued while the breaker was OPEN
     dialedOpen |-> FALSE]

\* No call has returned yet.
NoReturn ==
    [ep |-> "", why |-> "", body |-> "nil", err |-> "nil", dials |-> 0,
     tripped |-> FALSE, resetDue |-> FALSE, dialedOpen |-> FALSE]

CBInit ==
    /\ currentFailures = 0
    /\ isCircuitOpen = FALSE
    /\ circuitLastChecked = 0
    /\ call = [p \in Callers |-> IdleCall]
    /\ openedAt = 0
    /\ cbReturn = NoReturn
    /\ trial = FALSE

\* The reset timeout has passed since circuitLastChecked.
ResetElapsed == now - circuitLastChecked > ResetTimeout

\* The breaker is OPEN: it has opened and the reset timeout has not elapsed.
BreakerOpen == isCircuitOpen /\ ~ResetElapsed

\* What a call that ends returns: (body, err), with the call's history.
Returned(c, why, body, err) ==
    [ep |-> c.ep, why |-> why, body |-> body, err |-> err, dials |-> c.dials,
     tripped |-> c.tripped, resetDue |-> c.resetDue, dialedOpen |-> c.dialedOpen]

\* executeRequestWithRetries when isCircuitBreakerOpen answers true: the
\* fallback if one is registered, else ErrCircuitOpen.
OpenResult(c) ==
    IF c.ep \in DOMAIN FallbackResponses
      THEN Returned(c, "open", FallbackResponses[c.ep], "nil")
      ELSE Returned(c, "open", "nil", "ErrCircuitOpen")

\* Get/Post up to the breaker check of executeRequestWithRetries
\* (isCircuitBreakerOpen, its read under RLock): the breaker is open and the
\* timeout has not passed, so the call returns; or the timeout has passed and
\* the half-open write follows; or the breaker is closed and the retry loop
\* starts.
StartCall(p, ep) ==
    LET c0 == [IdleCall EXCEPT
                 !.ep = ep, !.start = now,
                 !.tripped = /\ currentFailures >= FailureThreshold
                             /\ ~(now - openedAt > ResetTimeout),
                 !.resetDue = /\ isCircuitOpen /\ now - openedAt > ResetTimeout
                              /\ \A q \in Callers : call[q].pc # "halfopen"]
    IN  /\ call[p].pc = "idle"
        /\ IF isCircuitOpen /\ ~ResetElapsed
             THEN /\ cbReturn' = OpenResult(c0)
                  /\ call' = call
             ELSE /\ call' = [call EXCEPT ![p] =
                        [c0 EXCEPT !.pc = IF isCircuitOpen THEN "halfopen" ELSE "ready"]]
                  /\ cbReturn' = cbReturn
        /\ UNCHANGED <<currentFailures, isCircuitOpen, circuitLastChecked, openedAt, trial>>

\* isCircuitBreakerOpen, its write under Lock after the RLock was given up:
\* half-open, failure count reset; the call goes on to the retry loop.
HalfOpen(p) ==
    /\ call[p].pc = "halfopen"
    /\ isCircuitOpen' = FALSE
    /\ currentFailures' = 0
    /\ call' = [call EXCEPT ![p].pc = "ready"]
    /\ trial' = TRUE
    /\ UNCHANGED <<circuitLastChecked, openedAt, cbReturn>>

\* One attempt of the retry closure is issued: c.executeRequest dials. A
\* retry is issued once its backoff delay has passed.
Dial(p) ==
    /\ call[p].pc = "ready"
    /\ now >= call[p].wake
    /\ call' = [call EXCEPT ![p].pc = "inflight",
                            ![p].wake = 0,
                            ![p].dials = @ + 1,
                            ![p].dialedOpen = @ \/ BreakerOpen]
    /\ UNCHANGED <<currentFailures, isCircuitOpen, circuitLastChecked, openedAt, cbReturn,
                   trial>>

\* recordSuccess.
recordSuccess ==
    /\ currentFailures' = 0
    /\ isCircuitOpen' = FALSE
    /\ trial' = FALSE
    /\ UNCHANGED <<circuitLastChecked, openedAt>>

\* recordFailure.
recordFailure ==
    /\ currentFailures' = currentFailures + 1
    /\ trial' = FALSE
    /\ IF currentFailures + 1 >= FailureThreshold
         THEN /\ isCircuitOpen' = TRUE
              /\ circuitLastChecked' = now
              /\ openedAt' = IF isCircuitOpen THEN openedAt ELSE now
         ELSE UNCHANGED <<isCircuitOpen, circuitLastChecked, openedAt>>

\* Mutant of GiveUp: the fallback registry is not consulted after the loop.
GiveUp_NoFallback(c, e, why) == Returned(c, why, "nil", e)

\* The end of executeRequestWithRetries after backoff.Retry gave up with error
\* e: the fallback if one is registered, else the error and the last body (nil).
GiveUp(c, e, why) ==
    IF c.ep \in DOMAIN FallbackResponses
      THEN Returned(c, why, FallbackResponses[c.ep], "nil")
      ELSE Returned(c, why, "nil", e)

\* The attempt succeeds: recordSuccess, the body is returned.
RespondOk(p) ==
    /\ call[p].pc = "inflight"
    /\ recordSuccess
    /\ cbReturn' = Returned(call[p], "ok", "body", "nil")
    /\ call' = [call EXCEPT ![p] = IdleCall]

\* Mutant of RespondPermanent: a permanent failure is not recorded.
RespondPermanent_Uncounted(p) ==
    /\ call[p].pc = "inflight"
    /\ cbReturn' = GiveUp(call[p], "permanent", "permanent")
    /\ call' = [call EXCEPT ![p] = IdleCall]
    /\ UNCHANGED <<currentFailures, isCircuitOpen, circuitLastChecked, openedAt, trial>>

\* The attempt fails with an error that is not retryable: recordFailure, and
\* backoff.Permanent ends the loop.
RespondPermanent(p) ==
    /\ call[p].pc = "inflight"
    /\ ~isRetryableError("permanent")
    /\ recordFailure
    /\ cbReturn' = GiveUp(call[p], "permanent", "permanent")
    /\ call' = [call EXCEPT ![p] = IdleCall]

\* The attempt fails with a retryable error: recordFailure; the backoff draws
\* the next delay d and stops when elapsed + d exceeds MaxElapsedTime, else
\* the loop sleeps d and tries again.
RespondRetryable(p) ==
    /\ call[p].pc = "inflight"
    /\ isRetryableError("retryable")
    /\ recordFailure
    /\ \E d \in 1..MaxInterval :
         IF (now - call[p].start) + d > MaxElapsedTime
           THEN /\ cbReturn' = GiveUp(call[p], "retryable", "exhausted")
                /\ call' = [call EXCEPT ![p] = IdleCall]
           ELSE /\ call' = [call EXCEPT ![p].pc = "ready", ![p].wake = now + d]
                /\ cbReturn' = cbReturn


\* ================================================================== Cache
\* The goroutines that call Get and GetWithLoader.
CProcs == {"g1", "g2"}
\* Cache keys; "" is the empty string.
Keys == {"", "a", "b"}
\* The key the GetWithLoader callers of SpecLoader contend for.
LoaderKeys == {"a"}
\* The values callers Set.
Values == {"v1"}
\* The values loaders return.
Loaded == {"v1", "v2"}
\* The goroutines that call Get, among CProcs.
Readers == {"g1"}
\* The duration arguments of Set in SpecCache, in ticks.
Durations == {1, 2}
\* The duration arguments of Set and GetWithLoader in SpecLoader, in ticks;
\* 0 asks for the default TTL.
LoaderDurations == {0, 1}

\* A goroutine between calls.
IdleProc == [pc |-> "idle", op |-> "", key |-> "", d |-> 0, val |-> "nil"]

\* No Set of the key is in effect.
NoSet == [set |-> FALSE, v |-> "nil", at |-> 0, d |-> 0]

\* No GetWithLoader has returned from its loader yet.
NoLoad == [key |-> "", val |-> "nil", err |-> FALSE, stale |-> FALSE]

CacheInit ==
    /\ items = EmptyMap
    /\ fallbackItems = EmptyMap
    /\ evictions = 0
    /\ staleServed = 0
    /\ allowStale \in BOOLEAN
    /\ cp = [p \in CProcs |-> IdleProc]
    /\ gwlReturn = NoLoad
    /\ lastSet = [k \in Keys |-> NoSet]
    /\ evictedSince = {}

\* Set: "if duration == 0 { duration = c.options.DefaultTTL }".
Duration(d) == IF d = 0 THEN DefaultTTL ELSE d

\* Mutant of Expired: entries never expire.
Expired_Never(item) == FALSE

\* Get: "time.Now().UnixNano() > item.Expiration".
Expired(item) == now > item.expiration

\* Get(key), what it returns: <<value, found>>.
GetResult(k) ==
    IF k \in DOMAIN items /\ ~Expired(items[k])
      THEN <<items[k].value, TRUE>>
      ELSE <<"nil", FALSE>>

\* evictOldest, its loop: the keys the loop can end on. It starts from
\* oldestAccess = now and oldestKey = "", takes an entry only when its
\* LastAccess is smaller, and ranges over the map in any order.
OldestKeys(its) ==
    LET older == {k \in DOMAIN its : its[k].lastAccess < now}
    IN  IF older = {} THEN {""}
        ELSE {k \in older : \A j \in older : its[k].lastAccess <= its[j].lastAccess}

\* Set under c.mu, with evictOldest ending on oldestKey.
SetItem(k, v, d, oldestKey) ==
    LET full == MaxItems > 0 /\ Cardinality(DOMAIN items) >= MaxItems
        evict == full /\ oldestKey # ""
        kept == IF evict THEN MapDrop(items, {oldestKey}) ELSE items
    IN  /\ items' = MapPut(kept, k, [value |-> v, expiration |-> now + Duration(d),
                                     lastAccess |-> now])
        /\ evictions' = IF evict THEN evictions + 1 ELSE evictions
        /\ fallbackItems' =
              IF allowStale
                THEN MapPut(fallbackItems, k,
                            [value |-> v, expiration |-> now + StaleTimeout,
                             lastAccess |-> now])
                ELSE fallbackItems
        /\ lastSet' = [lastSet EXCEPT ![k] = [set |-> TRUE, v |-> v, at |-> now, d |-> d]]
        /\ evictedSince' = (IF evict THEN evictedSince \cup {oldestKey}
                                     ELSE evictedSince) \ {k}

\* Set under c.mu as a function of the maps and the counter it starts from,
\* with evictOldest ending on oldestKey: the maps and the counter it leaves.
AfterSet(c, k, v, d, oldestKey) ==
    LET full == MaxItems > 0 /\ Cardinality(DOMAIN c.items) >= MaxItems
        evict == full /\ oldestKey # ""
        kept == IF evict THEN MapDrop(c.items, {oldestKey}) ELSE c.items
    IN  [items |-> MapPut(kept, k, [value |-> v, expiration |-> now + Duration(d),
                                    lastAccess |-> now]),
         evictions |-> IF evict THEN c.evictions + 1 ELSE c.evictions,
         fallbackItems |->
              IF allowStale
                THEN MapPut(c.fallbackItems, k,
                            [value |-> v, expiration |-> now + StaleTimeout,
                             lastAccess |-> now])
                ELSE c.fallbackItems]

\* Set(key, value, duration).
Set(k, v, d) ==
    /\ evictions < MaxEvictions
    /\ \E oldestKey \in OldestKeys(items) : SetItem(k, v, d, oldestKey)
    /\ UNCHANGED <<staleServed, allowStale, cp, gwlReturn>>

\* Delete(key).
Delete(k) ==
    /\ items' = MapDrop(items, {k})
    /\ fallbackItems' = MapDrop(fallbackItems, {k})
    /\ lastSet' = [lastSet EXCEPT ![k] = NoSet]
    /\ evictedSince' = evictedSince \ {k}
    /\ UNCHANGED <<evictions, staleServed, allowStale, cp, gwlReturn>>

\* Clear().
Clear ==
    /\ items' = EmptyMap
    /\ fallbackItems' = EmptyMap
    /\ lastSet' = [k \in Keys |-> NoSet]
    /\ evictedSince' = {}
    /\ UNCHANGED <<evictions, staleServed, allowStale, cp, gwlReturn>>

\* cleanup(), run by the cleanup ticker: drop the expired entries of both maps.
cacheCleanup ==
    /\ items' = MapDrop(items, {k \in DOMAIN items : now > items[k].expiration})
    /\ fallbackItems' = MapDrop(fallbackItems,
            {k \in DOMAIN fallbackItems : now > fallbackItems[k].expiration})
    /\ UNCHANGED <<evictions, staleServed, allowStale, cp, gwlReturn, lastSet, evictedSince>>

\* Get, its read of the entry and its expiry test, as the first step of Get
\* and GetWithLoader: a hit goes on to the LastAccess update; a miss returns
\* from Get, and starts the loader of GetWithLoader.
GetRead(p, op, k, d) ==
    LET r == GetResult(k)
        c0 == [IdleProc EXCEPT !.op = op, !.key = k, !.d = d]
    IN  /\ cp[p].pc = "idle"
        /\ op = "GetWithLoader" => staleServed < MaxStaleServed
        /\ cp' = [cp EXCEPT ![p] =
              IF r[2] THEN [c0 EXCEPT !.pc = "touch", !.val = r[1]]
              ELSE IF op = "GetWithLoader" THEN [c0 EXCEPT !.pc = "load"]
              ELSE IdleProc]
        /\ UNCHANGED <<items, fallbackItems, evictions, staleServed, allowStale,
                       gwlReturn, lastSet, evictedSince>>

\* Get, its LastAccess update under Lock, if the key is still there; Get and
\* GetWithLoader then return the value read.
GetTouch(p) ==
    LET k == cp[p].key IN
    /\ cp[p].pc = "touch"
    /\ items' = IF k \in DOMAIN items
                  THEN [items EXCEPT ![k].lastAccess = now] ELSE items
    /\ cp' = [cp EXCEPT ![p] = IdleProc]
    /\ UNCHANGED <<fallbackItems, evictions, staleServed, allowStale, gwlReturn,
                   lastSet, evictedSince>>

\* GetWithLoader: loader() returns a value.
LoaderOk(p, v) ==
    /\ cp[p].pc = "load"
    /\ cp' = [cp EXCEPT ![p].pc = "store", ![p].val = v]
    /\ UNCHANGED <<items, fallbackItems, evictions, staleServed, allowStale,
                   gwlReturn, lastSet, evictedSince>>

\* Mutant of StaleUsable: the stale copy's expiration is not looked at.
StaleUsable_AnyAge(k) == allowStale /\ k \in DOMAIN fallbackItems

\* GetWithLoader after a loader error: a stale copy is there to serve.
StaleUsable(k) ==
    /\ allowStale
    /\ k \in DOMAIN fallbackItems
    /\ now <= fallbackItems[k].expiration

\* GetWithLoader: loader() returns an error; the stale copy is served and
\* counted if there is one, else the error is returned.
LoaderErr(p) ==
    LET k == cp[p].key IN
    /\ cp[p].pc = "load"
    /\ IF StaleUsable(k)
         THEN /\ staleServed' = staleServed + 1
              /\ gwlReturn' = [key |-> k, val |-> fallbackItems[k].value,
                               err |-> FALSE, stale |-> TRUE]
         ELSE /\ staleServed' = staleServed
              /\ gwlReturn' = [key |-> k, val |-> "nil", err |-> TRUE, stale |-> FALSE]
    /\ cp' = [cp EXCEPT ![p] = IdleProc]
    /\ UNCHANGED <<items, fallbackItems, evictions, allowStale, lastSet, evictedSince>>

\* GetWithLoader: c.Set(key, value, duration) after the loader, and return.
Store(p) ==
    /\ cp[p].pc = "store"
    /\ evictions < MaxEvictions
    /\ \E oldestKey \in OldestKeys(items) :
          SetItem(cp[p].key, cp[p].val, cp[p].d, oldestKey)
    /\ gwlReturn' = [key |-> cp[p].key, val |-> cp[p].val, err |-> FALSE, stale |-> FALSE]
    /\ cp' = [cp EXCEPT ![p] = IdleProc]
    /\ UNCHANGED <<staleServed, allowStale>>


\* ---------------------------------------------------- Cache, lock by lock
\* A sync.RWMutex nobody holds.
Unlocked == [w |-> "", r |-> {}]

\* NewWithOptions: the zero value of c.mu and c.statsMu.
LockInit == mu = Unlocked /\ statsMu = Unlocked

\* Set(key, value, duration) from c.mu.Lock() on. With no eviction (the map
\* is not full, or evictOldest ends on no key) it takes no other lock and
\* runs through to its deferred Unlock; else it goes on, holding c.mu, to
\* evictOldest's call of incrementEvictions.
SetLock(p, k, v, d) ==
    /\ cp[p].pc = "idle"
    /\ mu = Unlocked
    /\ evictions < MaxEvictions
    /\ \E oldestKey \in OldestKeys(items) :
          IF MaxItems > 0 /\ Cardinality(DOMAIN items) >= MaxItems /\ oldestKey # ""
            THEN /\ mu' = [mu EXCEPT !.w = p]
                 /\ cp' = [cp EXCEPT ![p] =
                        [pc |-> "evict", op |-> "Set", key |-> k, d |-> d, val |-> v]]
                 /\ UNCHANGED <<items, fallbackItems, evictions, lastSet, evictedSince,
                                statsMu>>
            ELSE /\ SetItem(k, v, d, oldestKey)
                 /\ UNCHANGED <<cp, mu, statsMu>>
    /\ UNCHANGED <<staleServed, allowStale, gwlReturn>>

\* Set inside evictOldest, c.mu held: incrementEvictions takes
\* c.statsMu.Lock(), counts and unlocks; the key is stored and the deferred
\* c.mu.Unlock() runs. The map cannot have changed since c.mu.Lock().
incrementEvictions(p) ==
    /\ cp[p].pc = "evict"
    /\ statsMu = Unlocked
    /\ \E oldestKey \in OldestKeys(items) :
          SetItem(cp[p].key, cp[p].val, cp[p].d, oldestKey)
    /\ mu' = Unlocked
    /\ cp' = [cp EXCEPT ![p] = IdleProc]
    /\ UNCHANGED <<staleServed, allowStale, gwlReturn, statsMu>>

\* GetStats up to c.statsMu.RLock(), which it holds until it returns.
GetStatsLock(p) ==
    /\ cp[p].pc = "idle"
    /\ statsMu.w = ""
    /\ statsMu' = [statsMu EXCEPT !.r = @ \cup {p}]
    /\ cp' = [cp EXCEPT ![p] = [IdleProc EXCEPT !.pc = "stats", !.op = "GetStats"]]
    /\ UNCHANGED <<items, fallbackItems, evictions, staleServed, allowStale, gwlReturn,
                   lastSet, evictedSince, mu>>

\* GetStats from c.mu.RLock() on: the size is read, both locks are released.
GetStatsRead(p) ==
    /\ cp[p].pc = "stats"
    /\ mu.w = ""
    /\ statsMu' = [statsMu EXCEPT !.r = @ \ {p}]
    /\ cp' = [cp EXCEPT ![p] = IdleProc]
    /\ UNCHANGED <<items, fallbackItems, evictions, staleServed, allowStale, gwlReturn,
                   lastSet, evictedSince, mu>>

\* =========================================================== TokenManager
\* The handlers that call GetToken and then SetAuthToken on the shared client.
TMCallers == {"h1", "h2"}
\* The refreshInBackground goroutines that can be alive at once.
BgSlots == {1, 2}

\* A token is its "eyJ" prefix, its length and, to tell issued tokens apart,
\* the number of the session it came with; "" is EmptyToken.
EmptyToken == [prefix |-> FALSE, len |-> 0, id |-> 0]
\* The accessJwt values an upstream response can carry: well-formed, one
\* character short, and empty.
Shapes == {[prefix |-> TRUE, len |-> 100], [prefix |-> TRUE, len |-> 99],
           [prefix |-> FALSE, len |-> 0]}
Mint(shape, n) ==
    IF shape.len = 0 THEN EmptyToken
    ELSE [prefix |-> shape.prefix, len |-> shape.len, id |-> n]

\* isValidJWT(token).
isValidJWT(token) == token.prefix /\ token.len >= JWTMinLen

\* The zero Session of a new TokenManager.
NoSession == [access |-> EmptyToken, refresh |-> FALSE, did |-> 0, expiresAt |-> 0]

\* The Session parsed from a createSession/refreshSession response, with
\* ExpiresAt set; refresh tells whether its refreshJwt is non-empty, and the
\* did is written as the number of the response that named it.
Response(shape, refresh) ==
    [access |-> Mint(shape, issued + 1), refresh |-> refresh, did |-> issued + 1,
     expiresAt |-> now + SessionTTL]

IdleCaller == [pc |-> "idle", cred |-> 0, tok |-> EmptyToken]
NoBg == [pc |-> "none"]
NoToken == [ok |-> FALSE, tok |-> EmptyToken, live |-> FALSE, via |-> "", cred |-> 0]

TMInit ==
    /\ session = NoSession
    /\ refreshing = FALSE
    /\ bearer = EmptyToken
    /\ mutex = ""
    /\ backups = <<>>
    /\ tp = [p \in TMCallers |-> IdleCaller]
    /\ bg = [s \in BgSlots |-> NoBg]
    /\ issued = 0
    /\ tokenRet = NoToken

\* getValidTokenUnlocked: "go tm.refreshInBackground()" is due.
RefreshDue ==
    /\ session.access.len # 0
    /\ now + refreshThreshold > session.expiresAt
    /\ now < session.expiresAt
    /\ ~refreshing

\* Mutant of TokenValid: the cached token is never taken as valid.
TokenValid_Never == FALSE

\* getValidTokenUnlocked: the token it returns is valid.
TokenValid ==
    /\ session.access.len # 0
    /\ now < session.expiresAt
    /\ isValidJWT(session.access)

\* getValidTokenUnlocked, its go statement: a new goroutine if one is due.
SpawnIfDue ==
    IF RefreshDue
      THEN \E s \in BgSlots :
              /\ bg[s].pc = "none"
              /\ \A r \in BgSlots : bg[r].pc = "none" => s <= r
              /\ bg' = [bg EXCEPT ![s] = [pc |-> "start"]]
      ELSE bg' = bg

\* GetToken returns (tok, nil) to p.
ReturnToken(p, tok, expiresAt, via) ==
    /\ tp' = [tp EXCEPT ![p] = [pc |-> "have", cred |-> 0, tok |-> tok]]
    /\ tokenRet' = [ok |-> TRUE, tok |-> tok, live |-> now < expiresAt,
                    via |-> via, cred |-> tp[p].cred]

\* GetToken, under RLock: the cached token if valid, else on to the write lock.
GetTokenFast(p) ==
    /\ tp[p].pc = "idle"
    /\ mutex = ""
    /\ SpawnIfDue
    /\ IF TokenValid
         THEN ReturnToken(p, session.access, session.expiresAt, "cached")
         ELSE /\ tp' = [tp EXCEPT ![p].pc = "lock"]
              /\ tokenRet' = tokenRet
    /\ UNCHANGED <<session, refreshing, bearer, mutex, backups, issued>>

\* Mutant of SlowPath: a new session is created without trying the refresh.
SlowPath_CreateFirst(s) == "create"

\* GetToken with no valid token: "if tm.session.RefreshJWT != \"\"" the
\* refresh comes first, else createSessionWithRetries.
SlowPath(s) == IF s.refresh THEN "refresh" ELSE "create"

\* GetToken, tm.mutex.Lock() and the second look: the cached token if valid
\* by now (returned via "recheck"), else the refresh if there is a refresh token, else a new session;
\* the lock is held until GetToken returns.
GetTokenLock(p) ==
    /\ tp[p].pc = "lock"
    /\ mutex = ""
    /\ SpawnIfDue
    /\ IF TokenValid
         THEN /\ ReturnToken(p, session.access, session.expiresAt, "recheck")
              /\ mutex' = mutex
         ELSE /\ tp' = [tp EXCEPT ![p].pc = SlowPath(session)]
              /\ tokenRet' = tokenRet
              /\ mutex' = p
    /\ UNCHANGED <<session, refreshing, bearer, backups, issued>>

\* Mutant of InstallSession: only the accessJwt of the response is stored.
InstallSession_Torn(s) ==
    /\ session' = [session EXCEPT !.access = s.access]
    /\ bearer' = s.access
    /\ issued' = issued + 1

\* The session is replaced and the shared client is given its accessJwt:
\* the tail of createSessionUnlocked and of refreshSessionUnlocked.
InstallSession(s) ==
    /\ session' = s
    /\ bearer' = s.access
    /\ issued' = issued + 1

\* refreshSessionWithRetries succeeds: GetToken returns tm.session.AccessJWT.
refreshSessionOk(p, shape, refresh) ==
    /\ tp[p].pc = "refresh"
    /\ issued < MaxIssued
    /\ InstallSession(Response(shape, refresh))
    /\ ReturnToken(p, Response(shape, refresh).access, Response(shape, refresh).expiresAt,
                   "refresh")
    /\ mutex' = ""
    /\ UNCHANGED <<refreshing, backups, bg>>

\* refreshSessionWithRetries fails: GetToken falls back to a new session.
refreshSessionFail(p) ==
    /\ tp[p].pc = "refresh"
    /\ tp' = [tp EXCEPT ![p].pc = "create"]
    /\ UNCHANGED <<session, refreshing, bearer, mutex, backups, bg, issued, tokenRet>>

\* createSessionWithRetries: createSessionUnlocked succeeds, with the main
\* credentials (cred = 0) or a backup; GetToken returns its token.
createSessionOk(p, shape, refresh) ==
    /\ tp[p].pc = "create"
    /\ issued < MaxIssued
    /\ InstallSession(Response(shape, refresh))
    /\ ReturnToken(p, Response(shape, refresh).access, Response(shape, refresh).expiresAt,
                   "create")
    /\ mutex' = ""
    /\ UNCHANGED <<refreshing, backups, bg>>

\* createSessionWithRetries: the retries with one set of credentials fail;
\* on to the next backup, or GetToken returns the error.
createSessionFail(p) ==
    /\ tp[p].pc = "create"
    /\ IF tp[p].cred < Len(backups)
         THEN /\ tp' = [tp EXCEPT ![p].cred = @ + 1]
              /\ UNCHANGED <<mutex, tokenRet>>
         ELSE /\ tp' = [tp EXCEPT ![p] = IdleCaller]
              /\ mutex' = ""
              /\ tokenRet' = [NoToken EXCEPT !.via = "create", !.cred = tp[p].cred]
    /\ UNCHANGED <<session, refreshing, bearer, backups, bg, issued>>

\* The handler, after GetToken: client.SetAuthToken(token) on GetClient().
SetAuthToken(p) ==
    /\ tp[p].pc = "have"
    /\ bearer' = tp[p].tok
    /\ tp' = [tp EXCEPT ![p] = IdleCaller]
    /\ UNCHANGED <<session, refreshing, mutex, backups, bg, issued, tokenRet>>

\* RegisterBackupCredentials(credentials), under tm.mutex: the entry is
\* appended; host is its BskyHost.
RegisterBackupCredentials(host) ==
    /\ mutex = ""
    /\ Len(backups) < MaxBackups
    /\ backups' = Append(backups, host)
    /\ UNCHANGED <<session, refreshing, bearer, mutex, tp, bg, issued, tokenRet>>

\* Mutant of Latched: the latch is never seen set.
Latched_Never == FALSE

\* refreshInBackground: "if tm.refreshing", read under tm.mutex.
Latched == refreshing

\* refreshInBackground, its first locked section: leave if a refresh is
\* running, else set the latch and take the refresh token; with no refresh
\* token there is nothing to post.
BgLatch(s) ==
    /\ bg[s].pc = "start"
    /\ mutex = ""
    /\ IF Latched
         THEN /\ bg' = [bg EXCEPT ![s] = NoBg]
              /\ refreshing' = refreshing
         ELSE /\ bg' = [bg EXCEPT ![s] = IF session.refresh
                                           THEN [pc |-> "post", from |-> session.did]
                                           ELSE [pc |-> "unlatch", how |-> "empty"]]
              /\ refreshing' = TRUE
    /\ UNCHANGED <<session, bearer, mutex, backups, tp, issued, tokenRet>>

\* refreshInBackground: the refresh posted on its own client succeeds and
\* the new session is stored under tm.mutex; max bounds the sessions issued.
BgRefreshOk(s, shape, refresh, max) ==
    /\ bg[s].pc = "post"
    /\ mutex = ""
    /\ issued < max
    /\ session' = Response(shape, refresh)
    /\ issued' = issued + 1
    /\ bg' = [bg EXCEPT ![s] = [pc |-> "unlatch", how |-> "ok"]]
    /\ UNCHANGED <<refreshing, bearer, mutex, backups, tp, tokenRet>>

\* refreshInBackground: the retries of the refresh fail.
BgRefreshFail(s) ==
    /\ bg[s].pc = "post"
    /\ bg' = [bg EXCEPT ![s] = [pc |-> "unlatch", how |-> "failed"]]
    /\ UNCHANGED <<session, refreshing, bearer, mutex, backups, tp, issued, tokenRet>>

\* Mutant of BgUnlatch: the invocation returns and leaves the latch set.
BgUnlatch_KeepsFlag(s) ==
    /\ bg[s].pc = "unlatch"
    /\ mutex = ""
    /\ bg' = [bg EXCEPT ![s] = NoBg]
    /\ UNCHANGED <<session, refreshing, bearer, mutex, backups, tp, issued, tokenRet>>

\* refreshInBackground, deferred: the latch is cleared under tm.mutex.
BgUnlatch(s) ==
    /\ bg[s].pc = "unlatch"
    /\ mutex = ""
    /\ refreshing' = FALSE
    /\ bg' = [bg EXCEPT ![s] = NoBg]
    /\ UNCHANGED <<session, bearer, mutex, backups, tp, issued, tokenRet>>


\* ------------------------------------------------------------- SubmitPost
\* No createRecord has been sent.
PostInit == submitted = [sent |-> FALSE, bearer |-> EmptyToken, current |-> FALSE, at |-> 0]

\* client.Post("com.atproto.repo.createRecord", request): the request carries
\* the bearer the shared client has now; current tells whether that is the
\* accessJwt of the Session and the Session has not expired.
createRecord ==
    submitted' = [sent |-> TRUE, bearer |-> bearer, at |-> now,
                  current |-> bearer = session.access /\ now < session.expiresAt]

\* SubmitPost(cfg, text) up to its first wait: GetDID under RLock; with a
\* DID the record is posted at once, else GetToken is called first.
SubmitPost(p) ==
    /\ tp[p].pc = "idle"
    /\ mutex = ""
    /\ IF session.did # 0
         THEN createRecord /\ UNCHANGED tmVars
         ELSE GetTokenFast(p) /\ UNCHANGED submitted

\* SubmitPost after its GetToken returned a token, which it drops: GetDID
\* again, "unable to get user DID" if it is still empty, else the record is
\* posted.
SubmitPostAuthenticated(p) ==
    /\ tp[p].pc = "have"
    /\ mutex = ""
    /\ IF session.did # 0 THEN createRecord ELSE UNCHANGED submitted
    /\ tp' = [tp EXCEPT ![p] = IdleCaller]
    /\ UNCHANGED <<session, refreshing, bearer, mutex, backups, bg, issued, tokenRet>>

\* ------------------------------------------------------------ AnalyzeFeed
\* fetchAndProcessFeed: the FeedResponse the loader builds, and so the value
\* feedCache holds, for the posts v.
FeedResponse(v) == [Posts |-> v, Warning |-> "", Source |-> "api_fresh"]

\* AnalyzeFeed after feedCache.GetWithLoader returned (result, err): with an
\* error, a non-nil result is marked stale and returned, else the error is
\* wrapped; without an error the result is returned, its Source filled in
\* if empty.
AnalyzeFeed(result, err) ==
    IF err
      THEN IF result # "nil"
             THEN [err |-> FALSE,
                   resp |-> [FeedResponse(result) EXCEPT
                               !.Warning = "Data may be stale due to API errors",
                               !.Source = "cache_stale"]]
             ELSE [err |-> TRUE, resp |-> FeedResponse("nil")]
      ELSE [err |-> FALSE,
            resp |-> IF FeedResponse(result).Source = ""
                       THEN [FeedResponse(result) EXCEPT !.Source = "api_fresh"]
                       ELSE FeedResponse(result)]

\* ======================================================= Cache persistence
\* The cache here is one with PersistOptions.Enabled and LoadOnStartup, as
\* feedCache is. A Go value of interface type is a record of its dynamic type
\* and its content; a JSON text is a record of its kind and its content. The
\* content of a string is held in a field s.
\* The values the persisted caches hold: the strings of TestPersistence and
\* the models.FeedResponse that AnalyzeFeed's loader returns.
PersistValues ==
    {[type |-> "string", v |-> [s |-> "v1"]],
     [type |-> "models.FeedResponse", v |-> FeedResponse("p1")]}

\* json.Encoder.Encode of Item.Value: a string is written as a JSON string, a
\* models.FeedResponse as a JSON object whose members are named by the json
\* tags, "warning" and "source" left out when empty, a map[string]interface{}
\* as a JSON object of its entries.
Marshal(val) ==
    IF val.type = "string"
      THEN [json |-> "string", v |-> val.v]
    ELSE IF val.type = "map[string]interface {}"
      THEN [json |-> "object", v |-> val.v]
      ELSE [json |-> "object",
            v |-> [n \in {"posts"}
                      \cup (IF val.v.Warning # "" THEN {"warning"} ELSE {})
                      \cup (IF val.v.Source # "" THEN {"source"} ELSE {}) |->
                     CASE n = "posts" -> val.v.Posts
                       [] n = "warning" -> val.v.Warning
                       [] OTHER -> val.v.Source]]

\* json.Decoder.Decode into Item.Value, an interface{}: a JSON string gives a
\* string, a JSON object gives a map[string]interface{} of its members.
Unmarshal(j) ==
    IF j.json = "string"
      THEN [type |-> "string", v |-> j.v]
      ELSE [type |-> "map[string]interface {}", v |-> j.v]

\* An Item as the encoder writes it: "last_access" is omitempty.
MarshalItem(item) ==
    [n \in {"value", "expiration"}
           \cup (IF item.lastAccess # 0 THEN {"last_access"} ELSE {}) |->
       CASE n = "value" -> Marshal(item.value)
         [] n = "expiration" -> item.expiration
         [] OTHER -> item.lastAccess]

\* An Item as the decoder reads it.
UnmarshalItem(j) ==
    [value |-> Unmarshal(j["value"]),
     expiration |-> j["expiration"],
     lastAccess |-> IF "last_access" \in DOMAIN j THEN j["last_access"] ELSE 0]

\* No file, and no snapshot written yet.
NoFile == [kind |-> "absent", entries |-> EmptyMap]
NoSnapshot == [ok |-> FALSE, items |-> EmptyMap]

PersistInit ==
    /\ disk = NoFile
    /\ persisted = NoSnapshot
    /\ loadReturn = [done |-> FALSE, at |-> 0, live |-> EmptyMap, from |-> NoSnapshot]

\* persistToDisk(), run by the persist ticker and by Stop: it copies the live
\* map, creates (truncates) the file and encodes the copy into it. When
\* os.Create fails the file is as it was; when Encode fails the file is left
\* truncated.
persistToDisk(outcome) ==
    /\ CASE outcome = "written" ->
              /\ disk' = [kind |-> "json",
                          entries |-> [k \in DOMAIN items |-> MarshalItem(items[k])]]
              /\ persisted' = [ok |-> TRUE, items |-> items]
         [] outcome = "create failed" ->
              UNCHANGED <<disk, persisted>>
         [] OTHER ->
              /\ disk' = [kind |-> "empty", entries |-> EmptyMap]
              /\ persisted' = NoSnapshot
    /\ UNCHANGED <<cacheVars, loadReturn>>

\* loadFromDisk() on a cache whose maps are empty, what it leaves in c.items:
\* nothing when the file is absent or empty, else the decoded entries with
\* now <= Expiration.
LoadedItems ==
    LET snapshot == [k \in DOMAIN disk.entries |-> UnmarshalItem(disk.entries[k])]
    IN  [k \in {j \in DOMAIN snapshot : now <= snapshot[j].expiration} |-> snapshot[k]]

\* NewWithOptions(options) after a restart of the process, with the options
\* of the cache that wrote the file: empty maps, zero statistics, then
\* loadFromDisk, which also seeds the stale copies.
NewWithOptions ==
    /\ items' = LoadedItems
    /\ fallbackItems' =
          IF allowStale
            THEN [k \in DOMAIN LoadedItems |->
                    [value |-> LoadedItems[k].value,
                     expiration |-> now + StaleTimeout,
                     lastAccess |-> LoadedItems[k].lastAccess]]
            ELSE EmptyMap
    /\ evictions' = 0
    /\ staleServed' = 0
    /\ cp' = [p \in CProcs |-> IdleProc]
    /\ gwlReturn' = NoLoad
    /\ lastSet' = [k \in Keys |-> NoSet]
    /\ evictedSince' = {}
    /\ loadReturn' = [done |-> TRUE, at |-> now, live |-> LoadedItems, from |-> persisted]
    /\ UNCHANGED <<allowStale, disk, persisted>>

\* ------------------------------------------- createSessionWithRetries, refined
\* The GetToken caller whose session-create is followed through tm.client.
LoginCaller == "h1"
\* The goroutine of LoginCaller as a caller of tm.client.
LoginCall == "c1"
CreateSession == "com.atproto.server.createSession"
\* The credentials the upstream accepts, by position: 0 is the main pair of
\* the configuration, i >= 1 the i-th registered backup.
Accepted == {2}
\* cfg.BskyHost, the host of the main credentials.
PrimaryHost == "https://bsky.social"
\* GetTokenManager: tm.client is apiclient.NewClient(cfg.BskyHost), and Post
\* builds its URL as c.BaseURL + "/xrpc/" + endpoint.
BaseURL == PrimaryHost
\* The BskyHost of a backup entry: none, or a host of its own.
NoHost == ""
BackupHosts == {NoHost, "https://backup.example"}

\* No retryOperation has run. running: a retryOperation is between its first
\* attempt and its return; posting: its operation is being invoked; since:
\* the start of its backoff clock; attempts: the invocations of the operation
\* by the running or the last retryOperation, and retried: those of them that
\* failed and were followed by another; last: how the last one ended.
NoLogin ==
    [running |-> FALSE, posting |-> FALSE, since |-> 0, attempts |-> 0, retried |-> 0,
     last |-> ""]

\* retryOperation invokes its operation: the first invocation starts the
\* backoff clock.
Invoke(l) ==
    IF l.running
      THEN [l EXCEPT !.posting = TRUE, !.attempts = @ + 1]
      ELSE [l EXCEPT !.running = TRUE, !.posting = TRUE, !.since = now, !.attempts = 1,
                     !.retried = 0]

\* retryOperation returns.
Ended(l, how) == [l EXCEPT !.running = FALSE, !.posting = FALSE, !.last = how]

LoginInit ==
    /\ login = NoLogin
    /\ posted = [sent |-> FALSE, cred |-> 0, host |-> ""]
    /\ failRet = [done |-> FALSE, err |-> "", last |-> ""]

\* Mutant of authIsRetryable: every error is retried.
authIsRetryable_Always(e) == TRUE

\* auth.isRetryableError over what tm.client.Post returns, wrapped as
\* "authentication failed: ...": "status 50x" and "request failed" are its
\* markers, "circuit breaker is open" and a 4xx are not.
authIsRetryable(e) == e = "retryable"

\* The retryOperation of p's current credentials returns error e, how tells
\* why it ended: with the main credentials e is kept in err, with a backup in
\* backupErr, which is dropped; after the last credentials (done)
\* createSessionWithRetries returns (token, err), token being "" as the last
\* createSessionUnlocked left it.
Failed(p, how, e) ==
    /\ createSessionFail(p)
    /\ login' = Ended(IF login.posting THEN login ELSE Invoke(login), how)
    /\ failRet' = [done |-> ~(tp[p].cred < Len(backups)),
                   err |-> IF tp[p].cred = 0 THEN e ELSE failRet.err,
                   last |-> e]

\* createSessionUnlocked up to tm.client.Post("com.atproto.server.createSession"):
\* the first attempt of a retryOperation starts its backoff clock.
LoginPost(p) ==
    /\ tp[p].pc = "create"
    /\ ~login.posting
    /\ Invoke(login).attempts <= MaxLoginAttempts
    /\ StartCall(LoginCall, CreateSession)
    /\ login' = Invoke(login)
    /\ posted' = [sent |-> TRUE, cred |-> tp[p].cred, host |-> BaseURL]
    /\ UNCHANGED <<failRet, now, rlVars, cacheVars, tmVars, ctxVars, gwVars, persistVars, lockVars, postVars>>

\* The upstream answers the attempt in flight: 200 for accepted credentials,
\* else a 4xx or a 5xx/transport error.
LoginRespondOk ==
    /\ tp[LoginCaller].cred \in Accepted
    /\ RespondOk(LoginCall)
    /\ UNCHANGED <<now, notCB>>

LoginRespondPermanent ==
    /\ tp[LoginCaller].cred \notin Accepted
    /\ RespondPermanent(LoginCall)
    /\ UNCHANGED <<now, notCB>>

LoginRespondRetryable ==
    /\ tp[LoginCaller].cred \notin Accepted
    /\ RespondRetryable(LoginCall)
    /\ UNCHANGED <<now, notCB>>

\* tm.client.Post has returned to createSessionUnlocked inside retryOperation:
\* on success the session is installed and GetToken returns; a retryable
\* error is tried again while the backoff (next interval d) stays within
\* MaxElapsedTime; any other error ends the retryOperation of these
\* credentials, and createSessionWithRetries goes to the next backup or fails.
LoginReturn(p) ==
    /\ tp[p].pc = "create"
    /\ login.posting
    /\ call[LoginCall].pc = "idle"
    /\ IF cbReturn.err = "nil"
         THEN /\ \E shape \in Shapes, refresh \in BOOLEAN : createSessionOk(p, shape, refresh)
              /\ login' = Ended(login, "ok")
              /\ failRet' = failRet
         ELSE \E d \in 0..AuthMaxInterval :
                IF authIsRetryable(cbReturn.err) /\ (now - login.since) + d <= AuthMaxElapsedTime
                  THEN /\ login' = [login EXCEPT !.posting = FALSE, !.retried = @ + 1]
                       /\ UNCHANGED <<tmVars, failRet>>
                  ELSE Failed(p, IF authIsRetryable(cbReturn.err)
                                   THEN "exhausted" ELSE "permanent", cbReturn.err)
    /\ UNCHANGED <<posted, now, rlVars, cbVars, cacheVars, ctxVars, gwVars, persistVars, lockVars, postVars>>

\* createSessionUnlocked with an empty identifier or password: the error is
\* not retryable and nothing is posted.
LoginMissingCredentials(p) ==
    /\ tp[p].cred = 0
    /\ ~login.posting
    /\ Invoke(login).attempts <= MaxLoginAttempts
    /\ Failed(p, "permanent", "missing Bluesky credentials in configuration")
    /\ UNCHANGED <<posted, now, rlVars, cbVars, cacheVars, ctxVars, gwVars, persistVars, lockVars, postVars>>


\* ------------------------------------------------------ TokenManager.Stop
\* GetTokenManager: refreshCtx is a fresh cancellable context.
StopInit == stopped = FALSE

\* Stop: tm.refreshCancel().
Stop ==
    /\ ~stopped
    /\ stopped' = TRUE
    /\ UNCHANGED <<now, rlVars, cbVars, cacheVars, tmVars, loginVars, gwVars, persistVars, lockVars, postVars>>

\* ------------------------------------------------------- HandleMCPRequest
\* Mutant of ValidMethods: every method is let through.
ValidMethods_Any ==
    {"feed-analysis", "post-assist", "post-submit", "community-manage", "feed-analysis2"}

\* ValidMethods.
ValidMethods == {"feed-analysis", "post-assist", "post-submit", "community-manage"}
\* The {method} path parameters requests arrive with.
Methods == {"feed-analysis", "post-submit", "feed-analysis2"}
\* The caller addresses requests arrive from.
GatewayIPs == {"ip1"}
\* The ids requests carry.
ReqIds == {7}
\* The bodies requests arrive with: JSON-RPC 2.0, another version, not JSON.
Bodies ==
    {[kind |-> "garbage", id |-> 0]}
      \cup {[kind |-> k, id |-> i] : k \in {"valid", "version1"}, i \in ReqIds}

\* The body of a request that was dispatched.
ValidBody(id) == [kind |-> "valid", id |-> id]

\* c.Bind(&req): the error, and the fields of the JSONRPCRequest.
Bind(body) ==
    IF body.kind = "garbage"
      THEN [err |-> TRUE, JSONRPC |-> "", ID |-> 0]
      ELSE [err |-> FALSE, JSONRPC |-> IF body.kind = "valid" THEN "2.0" ELSE "1.0",
            ID |-> body.id]

\* processMCPMethod, its timeout switch, in ticks: the longest for
\* feed-analysis, shorter for the others and by default.
timeout(method) ==
    CASE method = "feed-analysis" -> 2
      [] OTHER -> 1

\* An error text is the set of the fragments it contains, out of the markers
\* handleMethodError looks for and the text of ErrCircuitOpen.
CircuitOpenText == "circuit breaker is open"

\* strings.Contains(errString, m).
Contains(errString, m) == m \in errString

\* The errors a handler returns, by method. feed-analysis: "feed analysis
\* failed: " around a FetchError, "<endpoint> API request failed: " or
\* "Authentication error: authentication failed: " around the client's error
\* (ErrCircuitOpen, "API error (status N): <upstream body>"). post-submit:
\* the text check of the dispatcher.
HandlerErrors(method) ==
    CASE method = "feed-analysis" ->
            {{CircuitOpenText}, {"authentication", "API error"},
             {"API error", "status 5", "timeout"}, {"API error", "404"}}
      [] method = "post-submit" -> {{"invalid", "parameter"}}
      [] OTHER -> {}

\* Mutant of handleMethodError: the upstream class is looked for first.
handleMethodError_UpstreamFirst(errString) ==
    IF \/ Contains(errString, "server") \/ Contains(errString, "API error")
       \/ Contains(errString, "status 5") \/ Contains(errString, "failed to create post")
      THEN [status |-> 502, code |-> "api_error"]
    ELSE IF Contains(errString, "timeout")
      THEN [status |-> 504, code |-> "timeout"]
    ELSE IF Contains(errString, "authentication")
      THEN [status |-> 401, code |-> "authentication_error"]
    ELSE IF Contains(errString, "not found") \/ Contains(errString, "404")
      THEN [status |-> 404, code |-> "not_found"]
    ELSE IF \/ Contains(errString, "invalid") \/ Contains(errString, "parameter")
            \/ Contains(errString, "validation")
      THEN [status |-> 400, code |-> "invalid_params"]
    ELSE [status |-> 500, code |-> "internal_error"]

\* handleMethodError, its switch: the first case whose marker is in the text.
handleMethodError(errString) ==
    IF Contains(errString, "timeout")
      THEN [status |-> 504, code |-> "timeout"]
    ELSE IF Contains(errString, "authentication")
      THEN [status |-> 401, code |-> "authentication_error"]
    ELSE IF Contains(errString, "not found") \/ Contains(errString, "404")
      THEN [status |-> 404, code |-> "not_found"]
    ELSE IF \/ Contains(errString, "invalid") \/ Contains(errString, "parameter")
            \/ Contains(errString, "validation")
      THEN [status |-> 400, code |-> "invalid_params"]
    ELSE IF \/ Contains(errString, "server") \/ Contains(errString, "API error")
            \/ Contains(errString, "status 5") \/ Contains(errString, "failed to create post")
      THEN [status |-> 502, code |-> "api_error"]
    ELSE [status |-> 500, code |-> "internal_error"]

\* No response has been written yet.
NoResp ==
    [site |-> "", call |-> 0, method |-> "", body |-> "", reqId |-> 0,
     status |-> 0, code |-> "", id |-> 0, hasResult |-> FALSE, hasError |-> FALSE,
     details |-> FALSE, errText |-> {},
     \* history: the result is the one the handler of this call produced
     own |-> FALSE]

\* respondWithError: NewErrorResponse, or NewDetailedErrorResponse for a 5xx.
respondWithError(httpStatus, errorCode, id) ==
    [NoResp EXCEPT !.status = httpStatus, !.code = errorCode, !.id = id,
                   !.hasError = TRUE, !.details = httpStatus >= 500]

\* What the history keeps of the request a response answers.
Answering(r, site, method, body, k) ==
    [r EXCEPT !.site = site, !.method = method, !.body = body.kind,
              !.reqId = body.id, !.call = k]

\* Mutant of Chan: every call uses the channels of the first.
Chan_Shared(k) == 1

\* processMCPMethod: resultCh and errCh are made by the call, for the call.
Chan(k) == k

\* A call whose select has returned and whose handler goroutine has ended:
\* nothing refers to its channels any more.
Finished ==
    [method |-> "", ID |-> 0, deadline |-> 0, task |-> "done", out |-> "gone",
     resultCh |-> <<>>, errCh |-> <<>>]

Collect(cs) ==
    [k \in DOMAIN cs |->
        IF cs[k].out # "" /\ cs[k].task = "done" /\ \A j \in DOMAIN cs : Chan(j) = k => j = k
          THEN Finished ELSE cs[k]]

GWInit ==
    /\ calls = <<>>
    /\ gwResp = NoResp

\* processMCPMethod up to its select: the channels are made, the deadline is
\* set and the handler goroutine is started.
processMCPMethod(method, id, max) ==
    /\ Len(calls) < max
    /\ calls' = Append(calls,
          [method |-> method, ID |-> id,
           deadline |-> now + timeout(method), task |-> "run", out |-> "",
           resultCh |-> <<>>, errCh |-> <<>>])
    /\ gwResp' = gwResp

\* HandleMCPRequest up to its first response or to the select of
\* processMCPMethod: rate limit, method, body, version, then the handler
\* goroutine is started.
HandleMCPRequest(ip, method, body) ==
    LET req == Bind(body)
        k == Len(calls) + 1
    IN  /\ Allow(ip)
        /\ IF ~rlReturn'.ok
             THEN /\ gwResp' = Answering(respondWithError(429, "rate_limited", 0),
                                         "rate", method, body, 0)
                  /\ calls' = calls
           ELSE IF method \notin ValidMethods
             THEN /\ gwResp' = Answering(respondWithError(400, "invalid_request", 0),
                                         "method", method, body, 0)
                  /\ calls' = calls
           ELSE IF req.err
             THEN /\ gwResp' = Answering(respondWithError(400, "invalid_request", 0),
                                         "bind", method, body, 0)
                  /\ calls' = calls
           ELSE IF req.JSONRPC # "2.0"
             THEN /\ gwResp' = Answering(respondWithError(400, "invalid_request", req.ID),
                                         "version", method, body, 0)
                  /\ calls' = calls
           ELSE processMCPMethod(method, req.ID, MaxDispatched)

\* The handler goroutine of call k returns a result: "resultCh <- result".
HandlerResult(k) ==
    /\ calls[k].task = "run"
    /\ Len(calls[Chan(k)].resultCh) < ChanCap
    /\ calls' = Collect([[calls EXCEPT ![k].task = "done"]
                            EXCEPT ![Chan(k)].resultCh = Append(@, k)])
    /\ gwResp' = gwResp

\* The handler goroutine of call k returns an error: "errCh <- err".
HandlerError(k, e) ==
    /\ calls[k].task = "run"
    /\ Len(calls[Chan(k)].errCh) < ChanCap
    /\ calls' = Collect([[calls EXCEPT ![k].task = "done"]
                            EXCEPT ![Chan(k)].errCh = Append(@, e)])
    /\ gwResp' = gwResp

\* processMCPMethod, "case result := <-resultCh", and the success response.
SelectResult(k) ==
    /\ calls[k].out = ""
    /\ calls[Chan(k)].resultCh # <<>>
    /\ calls' = Collect([[calls EXCEPT ![k].out = "result"]
                            EXCEPT ![Chan(k)].resultCh = Tail(@)])
    /\ gwResp' = Answering([NoResp EXCEPT !.status = 200, !.id = calls[k].ID,
                                          !.hasResult = TRUE,
                                          !.own = Head(calls[Chan(k)].resultCh) = k],
                           "result", calls[k].method, ValidBody(calls[k].ID), k)

\* processMCPMethod, "case err := <-errCh", and handleMethodError.
SelectErr(k) ==
    LET e == Head(calls[Chan(k)].errCh)
        class == handleMethodError(e)
    IN  /\ calls[k].out = ""
        /\ calls[Chan(k)].errCh # <<>>
        /\ calls' = Collect([[calls EXCEPT ![k].out = "error"]
                                EXCEPT ![Chan(k)].errCh = Tail(@)])
        /\ gwResp' = Answering([respondWithError(class.status, class.code, calls[k].ID)
                                   EXCEPT !.errText = e],
                               "handler", calls[k].method, ValidBody(calls[k].ID), k)

\* processMCPMethod, "case <-time.After(timeout)": the error
\* "timeout processing '<method>' request", and handleMethodError.
SelectTimeout(k) ==
    LET e == {"timeout"}
        class == handleMethodError(e)
    IN  /\ calls[k].out = ""
        /\ now >= calls[k].deadline
        /\ calls' = Collect([calls EXCEPT ![k].out = "timeout"])
        /\ gwResp' = Answering([respondWithError(class.status, class.code, calls[k].ID)
                                   EXCEPT !.errText = e],
                               "timeout", calls[k].method, ValidBody(calls[k].ID), k)


\* ========================================================= specifications
Init ==
    /\ now = 0 /\ RLInit /\ CBInit /\ CacheInit /\ TMInit /\ LoginInit /\ StopInit /\ GWInit
    /\ PersistInit /\ LockInit /\ PostInit

SpecRLNext ==
    \/ \E ip \in IPs : Allow(ip) /\ UNCHANGED <<now, notRL>>
    \/ Tick(MaxTimeRL) /\ UNCHANGED <<rlVars, notRL>>
SpecRL == Init /\ [][SpecRLNext]_vars

SpecClientNext ==
    \/ \E p \in Callers, ep \in Endpoints : StartCall(p, ep) /\ UNCHANGED <<now, notCB>>
    \/ \E p \in Callers : HalfOpen(p) /\ UNCHANGED <<now, notCB>>
    \/ \E p \in Callers : Dial(p) /\ UNCHANGED <<now, notCB>>
    \/ \E p \in Callers : RespondOk(p) /\ UNCHANGED <<now, notCB>>
    \/ \E p \in Callers : RespondPermanent(p) /\ UNCHANGED <<now, notCB>>
    \/ \E p \in Callers : RespondRetryable(p) /\ UNCHANGED <<now, notCB>>
    \/ Tick(MaxTimeClient) /\ UNCHANGED <<cbVars, notCB>>
SpecClient == Init /\ [][SpecClientNext]_vars

SpecCacheNext ==
    \/ \E k \in Keys, v \in Values, d \in Durations : Set(k, v, d) /\ UNCHANGED <<now, notCache>>
    \/ \E k \in Keys : Delete(k) /\ UNCHANGED <<now, notCache>>
    \/ Clear /\ UNCHANGED <<now, notCache>>
    \/ cacheCleanup /\ UNCHANGED <<now, notCache>>
    \/ \E p \in Readers, k \in Keys : GetRead(p, "Get", k, 0) /\ UNCHANGED <<now, notCache>>
    \/ \E p \in CProcs : GetTouch(p) /\ UNCHANGED <<now, notCache>>
    \/ Tick(MaxTimeCache) /\ UNCHANGED <<cacheVars, notCache>>
SpecCache == Init /\ [][SpecCacheNext]_vars

SpecPersistNext ==
    \/ \E k \in {"a", "b"}, v \in PersistValues, d \in {1} :
          Set(k, v, d) /\ UNCHANGED <<now, notCache>>
    \/ cacheCleanup /\ UNCHANGED <<now, notCache>>
    \/ \E outcome \in {"written", "create failed", "encode failed"} :
          persistToDisk(outcome) /\ UNCHANGED <<now, notPersist, lockVars, postVars>>
    \/ NewWithOptions /\ UNCHANGED <<now, notPersist, lockVars, postVars>>
    \/ Tick(MaxTimePersist) /\ UNCHANGED <<cacheVars, notCache>>
SpecPersist == Init /\ [][SpecPersistNext]_vars

\* The cache with its locks: an operation that needs c.mu waits while another
\* goroutine holds it (a reader waits for the writer only).
SpecLocksNext ==
    \/ \E p \in CProcs, k \in Keys, v \in Values, d \in {1} :
          SetLock(p, k, v, d) /\ UNCHANGED <<now, notPersist, persistVars, postVars>>
    \/ \E p \in CProcs : incrementEvictions(p) /\ UNCHANGED <<now, notPersist, persistVars, postVars>>
    \/ \E p \in CProcs : GetStatsLock(p) /\ UNCHANGED <<now, notPersist, persistVars, postVars>>
    \/ \E p \in CProcs : GetStatsRead(p) /\ UNCHANGED <<now, notPersist, persistVars, postVars>>
    \/ \E k \in Keys : mu = Unlocked /\ Delete(k) /\ UNCHANGED <<now, notCache>>
    \/ mu = Unlocked /\ Clear /\ UNCHANGED <<now, notCache>>
    \/ mu = Unlocked /\ cacheCleanup /\ UNCHANGED <<now, notCache>>
    \/ \E p \in Readers, k \in Keys :
          mu.w = "" /\ GetRead(p, "Get", k, 0) /\ UNCHANGED <<now, notCache>>
    \/ \E p \in CProcs : mu = Unlocked /\ GetTouch(p) /\ UNCHANGED <<now, notCache>>
    \/ Tick(MaxTimeCache) /\ UNCHANGED <<cacheVars, notCache>>
SpecLocks == Init /\ [][SpecLocksNext]_vars

SpecLoaderNext ==
    \/ \E k \in LoaderKeys, v \in Values, d \in LoaderDurations :
          Set(k, v, d) /\ UNCHANGED <<now, notCache>>
    \/ \E k \in LoaderKeys : Delete(k) /\ UNCHANGED <<now, notCache>>
    \/ cacheCleanup /\ UNCHANGED <<now, notCache>>
    \/ \E p \in CProcs, k \in LoaderKeys, d \in LoaderDurations :
          GetRead(p, "GetWithLoader", k, d) /\ UNCHANGED <<now, notCache>>
    \/ \E p \in CProcs : GetTouch(p) /\ UNCHANGED <<now, notCache>>
    \/ \E p \in CProcs, v \in Loaded : LoaderOk(p, v) /\ UNCHANGED <<now, notCache>>
    \/ \E p \in CProcs : LoaderErr(p) /\ UNCHANGED <<now, notCache>>
    \/ \E p \in CProcs : Store(p) /\ UNCHANGED <<now, notCache>>
    \/ Tick(MaxTimeLoader) /\ UNCHANGED <<cacheVars, notCache>>
SpecLoader == Init /\ [][SpecLoaderNext]_vars

SpecTMNext ==
    \/ \E p \in TMCallers : GetTokenFast(p) /\ UNCHANGED <<now, notTM>>
    \/ \E p \in TMCallers : GetTokenLock(p) /\ UNCHANGED <<now, notTM>>
    \/ \E p \in TMCallers, shape \in Shapes, refresh \in BOOLEAN :
          refreshSessionOk(p, shape, refresh) /\ UNCHANGED <<now, notTM>>
    \/ \E p \in TMCallers : refreshSessionFail(p) /\ UNCHANGED <<now, notTM>>
    \/ \E p \in TMCallers, shape \in Shapes, refresh \in BOOLEAN :
          createSessionOk(p, shape, refresh) /\ UNCHANGED <<now, notTM>>
    \/ \E p \in TMCallers : createSessionFail(p) /\ UNCHANGED <<now, notTM>>
    \/ \E p \in TMCallers : SetAuthToken(p) /\ UNCHANGED <<now, notTM>>
    \/ \E s \in BgSlots : BgLatch(s) /\ UNCHANGED <<now, notTM>>
    \/ \E s \in BgSlots, shape \in Shapes, refresh \in BOOLEAN :
          BgRefreshOk(s, shape, refresh, MaxIssued) /\ UNCHANGED <<now, notTM>>
    \/ \E s \in BgSlots : BgRefreshFail(s) /\ UNCHANGED <<now, notTM>>
    \/ \E s \in BgSlots : BgUnlatch(s) /\ UNCHANGED <<now, notTM>>
    \/ Tick(MaxTimeTM) /\ UNCHANGED <<tmVars, notTM>>
SpecTM == Init /\ [][SpecTMNext]_vars

\* One GetToken caller and the refreshInBackground goroutines it starts.
SpecBgNext ==
    \/ GetTokenFast(LoginCaller) /\ UNCHANGED <<now, notTM>>
    \/ GetTokenLock(LoginCaller) /\ UNCHANGED <<now, notTM>>
    \/ \E shape \in Shapes, refresh \in BOOLEAN :
          refreshSessionOk(LoginCaller, shape, refresh) /\ UNCHANGED <<now, notTM>>
    \/ refreshSessionFail(LoginCaller) /\ UNCHANGED <<now, notTM>>
    \/ \E shape \in Shapes, refresh \in BOOLEAN :
          createSessionOk(LoginCaller, shape, refresh) /\ UNCHANGED <<now, notTM>>
    \/ createSessionFail(LoginCaller) /\ UNCHANGED <<now, notTM>>
    \/ SetAuthToken(LoginCaller) /\ UNCHANGED <<now, notTM>>
    \/ \E s \in BgSlots : BgLatch(s) /\ UNCHANGED <<now, notTM>>
    \/ \E s \in BgSlots, shape \in Shapes, refresh \in BOOLEAN :
          BgRefreshOk(s, shape, refresh, MaxIssued) /\ UNCHANGED <<now, notTM>>
    \/ \E s \in BgSlots : BgRefreshFail(s) /\ UNCHANGED <<now, notTM>>
    \/ \E s \in BgSlots : BgUnlatch(s) /\ UNCHANGED <<now, notTM>>
    \/ Tick(MaxTimeTM) /\ UNCHANGED <<tmVars, notTM>>

\* The scheduling SpecBg relies on. tm.mutex is a sync.RWMutex: a goroutine
\* waiting for it gets it once it has been released often enough, so the
\* steps of refreshInBackground taken under the lock are strongly fair.
\* Every upstream request ends (the HTTP client's timeout) and every retry
\* loop ends (MaxElapsedTime), so a posted refresh comes back, and a GetToken
\* caller holding the lock leaves its refresh and its create.
BgFairness ==
    /\ \A s \in BgSlots :
          /\ SF_vars(BgLatch(s) /\ UNCHANGED <<now, notTM>>)
          /\ WF_vars((BgRefreshFail(s)
                        \/ \E shape \in Shapes, refresh \in BOOLEAN :
                              BgRefreshOk(s, shape, refresh, MaxIssued))
                      /\ UNCHANGED <<now, notTM>>)
          /\ SF_vars(BgUnlatch(s) /\ UNCHANGED <<now, notTM>>)
    /\ WF_vars((refreshSessionFail(LoginCaller) \/ createSessionFail(LoginCaller)
                 \/ \E shape \in Shapes, refresh \in BOOLEAN :
                       refreshSessionOk(LoginCaller, shape, refresh)
                       \/ createSessionOk(LoginCaller, shape, refresh))
               /\ UNCHANGED <<now, notTM>>)
SpecBg == Init /\ [][SpecBgNext]_vars /\ BgFairness

\* SpecBg without its fairness, and with an upstream that still answers a
\* background refresh in flight when the caller has had MaxIssued sessions.
SpecStaleNext ==
    \/ SpecBgNext
    \/ \E s \in BgSlots, shape \in Shapes, refresh \in BOOLEAN :
          BgRefreshOk(s, shape, refresh, MaxIssued + 1) /\ UNCHANGED <<now, notTM>>
SpecStale == Init /\ [][SpecStaleNext]_vars

\* Handlers that all run post-submit: GetToken is called by SubmitPost only.
SpecSubmitNext ==
    \/ \E p \in TMCallers : SubmitPost(p) /\ UNCHANGED <<now, notPost>>
    \/ \E p \in TMCallers : SubmitPostAuthenticated(p) /\ UNCHANGED <<now, notPost>>
    \/ \E p \in TMCallers : GetTokenLock(p) /\ UNCHANGED <<now, notTM>>
    \/ \E p \in TMCallers, shape \in Shapes, refresh \in BOOLEAN :
          createSessionOk(p, shape, refresh) /\ UNCHANGED <<now, notTM>>
    \/ \E p \in TMCallers : createSessionFail(p) /\ UNCHANGED <<now, notTM>>
    \/ Tick(MaxTimeTM) /\ UNCHANGED <<tmVars, notTM>>
SpecSubmit == Init /\ [][SpecSubmitNext]_vars

SpecStopNext == SpecTMNext \/ Stop
SpecStop == Init /\ [][SpecStopNext]_vars

SpecGatewayNext ==
    \/ \E ip \in GatewayIPs, method \in Methods, body \in Bodies :
          HandleMCPRequest(ip, method, body) /\ UNCHANGED <<now, notGW>>
    \/ \E k \in DOMAIN calls : HandlerResult(k) /\ UNCHANGED <<now, rlVars, notGW>>
    \/ \E k \in DOMAIN calls :
          \E e \in HandlerErrors(calls[k].method) : HandlerError(k, e) /\ UNCHANGED <<now, rlVars, notGW>>
    \/ \E k \in DOMAIN calls : SelectResult(k) /\ UNCHANGED <<now, rlVars, notGW>>
    \/ \E k \in DOMAIN calls : SelectErr(k) /\ UNCHANGED <<now, rlVars, notGW>>
    \/ \E k \in DOMAIN calls : SelectTimeout(k) /\ UNCHANGED <<now, rlVars, notGW>>
    \/ Tick(MaxTimeGW) /\ UNCHANGED <<rlVars, gwVars, notGW>>
SpecGateway == Init /\ [][SpecGatewayNext]_vars

SpecDispatchNext ==
    \/ \E method \in Methods \cap ValidMethods, id \in ReqIds :
          processMCPMethod(method, id, MaxCalls) /\ UNCHANGED <<now, rlVars, notGW>>
    \/ \E k \in DOMAIN calls : HandlerResult(k) /\ UNCHANGED <<now, rlVars, notGW>>
    \/ \E k \in DOMAIN calls :
          \E e \in HandlerErrors(calls[k].method) : HandlerError(k, e) /\ UNCHANGED <<now, rlVars, notGW>>
    \/ \E k \in DOMAIN calls : SelectResult(k) /\ UNCHANGED <<now, rlVars, notGW>>
    \/ \E k \in DOMAIN calls : SelectErr(k) /\ UNCHANGED <<now, rlVars, notGW>>
    \/ \E k \in DOMAIN calls : SelectTimeout(k) /\ UNCHANGED <<now, rlVars, notGW>>
    \/ Tick(MaxTimeDispatch) /\ UNCHANGED <<rlVars, gwVars, notGW>>
SpecDispatch == Init /\ [][SpecDispatchNext]_vars

SpecLoginNext ==
    \/ GetTokenFast(LoginCaller) /\ UNCHANGED <<now, notTM>>
    \/ GetTokenLock(LoginCaller) /\ UNCHANGED <<now, notTM>>
    \/ SetAuthToken(LoginCaller) /\ UNCHANGED <<now, notTM>>
    \/ RegisterBackupCredentials(NoHost) /\ UNCHANGED <<now, notTM>>
    \/ LoginPost(LoginCaller)
    \/ LoginReturn(LoginCaller)
    \/ LoginMissingCredentials(LoginCaller)
    \/ HalfOpen(LoginCall) /\ UNCHANGED <<now, notCB>>
    \/ Dial(LoginCall) /\ UNCHANGED <<now, notCB>>
    \/ LoginRespondOk
    \/ LoginRespondPermanent
    \/ LoginRespondRetryable
    \/ Tick(MaxTimeLogin) /\ UNCHANGED <<tmVars, notTM>>
SpecLogin == Init /\ [][SpecLoginNext]_vars

\* SpecLogin with backup entries that name a host of their own.
SpecHostsNext ==
    \/ SpecLoginNext
    \/ \E host \in BackupHosts :
          RegisterBackupCredentials(host) /\ UNCHANGED <<now, notTM>>
SpecHosts == Init /\ [][SpecHostsNext]_vars

\* SpecLogin with an upstream that can also answer accepted credentials with
\* a 5xx or fail in transport.
SpecRetryNext ==
    \/ SpecLoginNext
    \/ RespondRetryable(LoginCall) /\ UNCHANGED <<now, notCB>>
SpecRetry == Init /\ [][SpecRetryNext]_vars
\* ================================================================= claims
HasFallback(ep) == ep \in DOMAIN FallbackResponses

\* C2: with no fallback registered, a call started once FailureThreshold
\* consecutive attempts have failed (and before ResetTimeout has elapsed
\* since the breaker opened) returns ErrCircuitOpen without dialing; and the
\* first call started after ResetTimeout has elapsed since the instant the
\* breaker opened is not turned away: it dials.
C2_BreakerContract ==
    /\ \A p \in Callers :
         (call[p].pc # "idle" /\ ~HasFallback(call[p].ep)) => ~call[p].tripped
    /\ (cbReturn.tripped /\ ~HasFallback(cbReturn.ep))
          => (cbReturn.err = "ErrCircuitOpen" /\ cbReturn.dials = 0)
    /\ ~(cbReturn.resetDue /\ cbReturn.why = "open")

\* C3: no attempt is issued while the breaker is OPEN, by a call started while
\* OPEN or by a retry of a call already in its loop; a call turned away
\* returns the fallback bytes if registered, else ErrCircuitOpen.
C3_NoDialWhileOpen ==
    /\ \A p \in Callers : ~call[p].dialedOpen
    /\ ~cbReturn.dialedOpen
    /\ cbReturn.why = "open" =>
         /\ cbReturn.dials = 0
         /\ IF HasFallback(cbReturn.ep)
              THEN cbReturn.body = FallbackResponses[cbReturn.ep] /\ cbReturn.err = "nil"
              ELSE cbReturn.body = "nil" /\ cbReturn.err = "ErrCircuitOpen"

\* C4: a call whose attempts all failed with a retryable error until the retry
\* budget ran out returns the registered fallback bytes and no error if the
\* endpoint has a fallback, else the final error and no body.
C4_ExhaustedFallback ==
    cbReturn.why = "exhausted" =>
        IF HasFallback(cbReturn.ep)
          THEN cbReturn.body = FallbackResponses[cbReturn.ep] /\ cbReturn.err = "nil"
          ELSE cbReturn.body = "nil" /\ cbReturn.err = "retryable"

\* C4 witness: a call with a fallback gave up after several failed attempts.
C4_Witness ==
    /\ cbReturn.why = "exhausted"
    /\ cbReturn.dials >= 2
    /\ cbReturn.body = "timeline.json"

\* The last Set(k, v, t) of k had t > 0 and no Delete(k), Clear or Set of k
\* has followed it.
SetInEffect(k) == lastSet[k].set /\ lastSet[k].d > 0

\* What C6 says of a Get(k) issued now, t being the ttl of the Set in effect.
GetFollowsSet(k) ==
    /\ now < lastSet[k].at + lastSet[k].d => GetResult(k) = <<lastSet[k].v, TRUE>>
    /\ now > lastSet[k].at + lastSet[k].d => GetResult(k) = <<"nil", FALSE>>

\* C5: of the GetWithLoader calls on one key that run at the same time, at
\* most one is in its loader or storing what its loader returned.
C5_SingleFlight ==
    \A k \in Keys :
        Cardinality({p \in CProcs : cp[p].key = k /\ cp[p].pc \in {"load", "store"}}) <= 1

\* C6 as stated: after Set(k, v, t) with t > 0 and no later Delete(k), Clear
\* or Set of k, Get(k) returns (v, hit) before t has elapsed and a miss after
\* t has elapsed; and Get never returns an entry whose expiration has passed.
C6_SetThenGet ==
    /\ \A k \in Keys : SetInEffect(k) => GetFollowsSet(k)
    /\ \A k \in Keys : GetResult(k)[2] => now <= items[k].expiration

\* C6 amended: the same, for the keys that evictOldest has not removed since
\* that Set.
C6_SetThenGetUnlessEvicted ==
    /\ \A k \in Keys : (SetInEffect(k) /\ k \notin evictedSince) => GetFollowsSet(k)
    /\ \A k \in Keys : GetResult(k)[2] => now <= items[k].expiration

\* C6 witness: a Get of one key has read the value of the Set in effect and
\* is about to return it, while another key's entry is past its ttl, not yet
\* swept, and a miss for Get.
C6_Witness ==
    \E p \in Readers, k \in Keys :
        /\ cp[p].pc = "touch"
        /\ SetInEffect(cp[p].key) /\ cp[p].key \notin evictedSince
        /\ now < lastSet[cp[p].key].at + lastSet[cp[p].key].d
        /\ cp[p].val = lastSet[cp[p].key].v
        /\ SetInEffect(k) /\ k \notin evictedSince
        /\ now > lastSet[k].at + lastSet[k].d
        /\ k \in DOMAIN items
        /\ GetResult(k) = <<"nil", FALSE>>

\* C7: a Set that adds a key to a cache holding exactly MaxItems entries
\* removes exactly one entry, one of smallest LastAccess, adds 1 to
\* stats.Evictions and leaves MaxItems entries.
C7_EvictOldest ==
    [][(/\ MaxItems > 0
        /\ Cardinality(DOMAIN items) = MaxItems
        /\ DOMAIN items' \ DOMAIN items # {})
       => /\ Cardinality(DOMAIN items') = MaxItems
          /\ evictions' = evictions + 1
          /\ \E j \in DOMAIN items :
                /\ DOMAIN items \ DOMAIN items' = {j}
                /\ \A i \in DOMAIN items : items[j].lastAccess <= items[i].lastAccess]_vars

\* C8: when the loader of a GetWithLoader(k) that missed returns an error,
\* the call returns the stale copy of k with no error and stats.StaleServed
\* grows by exactly 1 if AllowStaleOnFail is on and there is a stale copy
\* whose expiration has not passed; otherwise it returns the error with no
\* value and stats.StaleServed is unchanged.
C8_StaleOnFail ==
    [][\A p \in CProcs :
          (cp[p].pc = "load" /\ cp'[p].pc = "idle") =>
              LET k == cp[p].key IN
              IF /\ allowStale
                 /\ k \in DOMAIN fallbackItems
                 /\ now <= fallbackItems[k].expiration
                THEN /\ staleServed' = staleServed + 1
                     /\ gwlReturn' = [key |-> k, val |-> fallbackItems[k].value,
                                      err |-> FALSE, stale |-> TRUE]
                ELSE /\ staleServed' = staleServed
                     /\ gwlReturn' = [key |-> k, val |-> "nil",
                                      err |-> TRUE, stale |-> FALSE]]_vars

\* C8 witness: a GetWithLoader whose loader failed has returned the stale
\* copy of a key whose live entry is expired, and one has been counted.
C8_Witness ==
    /\ gwlReturn.stale /\ ~gwlReturn.err
    /\ gwlReturn.val \in Values \cup Loaded
    /\ staleServed = 1
    /\ gwlReturn.key \in DOMAIN items
    /\ now > items[gwlReturn.key].expiration

\* C9: in every state the bearer on the shared client is the accessJwt of
\* the session installed last, a background refresh included.
C9_BearerIsCurrent == bearer = session.access

\* C10: a GetToken that returns without error returns a token that is
\* non-empty, passes isValidJWT and belongs to a session not yet expired at
\* the return, whatever accessJwt the upstream response carried.
C10_ReturnedTokenValid ==
    tokenRet.ok =>
        /\ tokenRet.tok.len > 0
        /\ isValidJWT(tokenRet.tok)
        /\ tokenRet.live

\* C11: a GetToken that finds no valid token goes to the refresh when the
\* session has a refresh token; when the refresh succeeds it returns the
\* accessJwt of the refreshed session without having started
\* createSessionWithRetries; createSessionWithRetries is started only with no
\* refresh token or after the refresh failed.
C11_RefreshBeforeCreate ==
    [][\A p \in TMCallers :
          /\ (tp[p].pc = "lock" /\ tp'[p].pc \in {"refresh", "create"})
                => (tp'[p].pc = "refresh" <=> session.refresh)
          /\ (tp[p].pc = "refresh" /\ tp'[p].pc = "have")
                => /\ issued' = issued + 1
                   /\ session'.access = Mint(session'.access, issued')
                   /\ tp'[p].tok = session'.access
                   /\ tokenRet' = [ok |-> TRUE, tok |-> session'.access, live |-> TRUE,
                                   via |-> "refresh", cred |-> 0]
          /\ (tp[p].pc # "create" /\ tp'[p].pc = "create")
                => \/ tp[p].pc = "lock" /\ ~session.refresh
                   \/ tp[p].pc = "refresh" /\ session.refresh /\ issued' = issued]_vars

\* C11 witness: a GetToken found the session expired, refreshed it and
\* returned the new, well-formed accessJwt.
C11_Witness ==
    /\ tokenRet.ok /\ tokenRet.via = "refresh"
    /\ tokenRet.tok = session.access
    /\ isValidJWT(tokenRet.tok)
    /\ now >= SessionTTL
    /\ \E p \in TMCallers : tp[p].pc = "have" /\ tp[p].tok = tokenRet.tok

\* C12: when session-create with the main credentials fails, whatever the
\* failure, and a registered backup is accepted by the upstream, GetToken
\* returns the token obtained with the first accepted backup in registration
\* order: it returns an error only if no registered backup is accepted, and a
\* token obtained with a backup comes from the first accepted one and is the
\* installed session's.
C12_BackupLadder ==
    /\ (tokenRet.via = "create" /\ ~tokenRet.ok)
          => \A i \in 1..tokenRet.cred : i \notin Accepted
    /\ (tokenRet.via = "create" /\ tokenRet.ok /\ tokenRet.cred # 0)
          => /\ tokenRet.cred \in Accepted
             /\ \A i \in 1..(tokenRet.cred - 1) : i \notin Accepted
    /\ \A p \in TMCallers :
          (tp[p].pc = "have" /\ tokenRet.via = "create" /\ tokenRet.ok
             /\ tp[p].tok = tokenRet.tok /\ mutex = p)
          => session.access = tokenRet.tok

\* C13: at most one background refresh is in flight: while one
\* refreshInBackground invocation holds the refreshing latch (it is posting
\* its refresh or about to clear the latch), no other invocation is past the
\* latch, so overlapping invocations make one upstream refresh call; the
\* latch is set exactly while an invocation holds it.
C13_OneRefreshInFlight ==
    /\ \A s, r \in BgSlots :
          (bg[s].pc \in {"post", "unlatch"} /\ bg[r].pc \in {"post", "unlatch"}) => s = r
    /\ refreshing <=> \E s \in BgSlots : bg[s].pc \in {"post", "unlatch"}

\* An invocation is posting its refresh while another one has been started
\* and has not yet looked at the latch.
C13_Witness ==
    \E s, r \in BgSlots :
        /\ s # r
        /\ bg[s].pc = "post"
        /\ bg[r].pc = "start"
        /\ refreshing

\* C14: after Stop, a background refresh in flight ends without installing a
\* session, and no background refresh sends a refreshSession request.
C14_StopEndsRefresh ==
    [][stopped =>
         \A s \in BgSlots :
            /\ ~(bg[s].pc = "post" /\ bg'[s].pc = "unlatch" /\ issued' = issued + 1)
            /\ ~(bg[s].pc # "post" /\ bg'[s].pc = "post")]_vars

\* The methods the gateway serves.
Whitelist == {"feed-analysis", "post-assist", "post-submit", "community-manage"}

\* A request on a method outside the whitelist was answered invalid_request
\* with 400, and no handler runs for such a method.
RejectedAsInvalid ==
    /\ gwResp.code = "invalid_request"
    /\ gwResp.status = 400
    /\ gwResp.call = 0

OnlyWhitelistedDispatched ==
    \A k \in DOMAIN calls : calls[k] = Finished \/ calls[k].method \in Whitelist

\* C15: every request on a method outside the whitelist, whatever the rate
\* limiter's state and whatever the body, is answered invalid_request with
\* HTTP 400, and no handler is dispatched.
C15_InvalidMethodAlways ==
    /\ (gwResp.site # "" /\ gwResp.method \notin Whitelist) => RejectedAsInvalid
    /\ OnlyWhitelistedDispatched

\* C15, amended: every request on a method outside the whitelist that the
\* rate limiter admits is answered invalid_request with HTTP 400, whatever
\* its body, and no handler is dispatched; one the rate limiter rejects is
\* answered rate_limited with HTTP 429.
C15_InvalidMethodWhenAdmitted ==
    /\ (gwResp.site \notin {"", "rate"} /\ gwResp.method \notin Whitelist) => RejectedAsInvalid
    /\ (gwResp.site = "rate") <=> (gwResp.code = "rate_limited" /\ gwResp.status = 429)
    /\ OnlyWhitelistedDispatched

\* A request with a method outside the whitelist and a body that is not
\* JSON was admitted by the rate limiter and answered.
C15_Witness ==
    /\ gwResp.site = "method"
    /\ gwResp.method \notin Whitelist
    /\ gwResp.body = "garbage"
    /\ rlReturn.ok

\* C16: every response carries the id of the request it answers and exactly
\* one of result and error, whichever step of HandleMCPRequest wrote it.
C16_MirrorsId ==
    gwResp.site # "" =>
        /\ gwResp.body # "garbage" => gwResp.id = gwResp.reqId
        /\ gwResp.hasResult # gwResp.hasError

\* C17: processMCPMethod returns one outcome per call: a result or an error
\* only once the call's own handler has delivered it, the timeout only once
\* the deadline is reached, mapped to timeout/504; after it has returned no
\* further response is written for the call and a late result or error
\* reaches no other call; and a handler goroutine that is still running
\* always finds room in its channel.
C17_OneOutcome ==
    /\ [](/\ \A k \in DOMAIN calls :
               calls[k].task = "run" =>
                  /\ Len(calls[Chan(k)].resultCh) < ChanCap
                  /\ Len(calls[Chan(k)].errCh) < ChanCap
          /\ gwResp.site = "result" => gwResp.own
          /\ gwResp.site = "timeout" => (gwResp.code = "timeout" /\ gwResp.status = 504))
    /\ [][\A k \in DOMAIN calls :
            /\ calls[k].out # "" =>
                  /\ calls'[k].out # ""
                  /\ gwResp'.call = k => gwResp' = gwResp
            /\ (calls[k].out = "" /\ calls'[k].out # "") =>
                  /\ gwResp'.call = k
                  /\ gwResp'.id = calls[k].ID
                  /\ gwResp'.site \in {"result", "handler", "timeout"}
                  /\ gwResp'.site = "timeout" => now >= calls[k].deadline
                  /\ gwResp'.site \in {"result", "handler"} => calls[k].task = "done"
                  /\ gwResp'.site = "result" => gwResp'.own]_vars

\* The first call timed out and its handler has ended since, while the
\* second call's result is waiting in its channel.
C17_Witness ==
    /\ Len(calls) = 2
    /\ calls[1] = Finished
    /\ gwResp.site = "timeout" /\ gwResp.call = 1
    /\ calls[2].out = "" /\ calls[2].task = "done" /\ calls[2].resultCh # <<>>

\* The code/status pairs of the taxonomy.
Taxonomy ==
    {<<"invalid_request", 400>>, <<"invalid_params", 400>>,
     <<"authentication_error", 401>>, <<"not_found", 404>>, <<"rate_limited", 429>>,
     <<"timeout", 504>>, <<"api_error", 502>>, <<"internal_error", 500>>}

\* The marker classes in their order, and the code of each.
MarkerClasses ==
    << [markers |-> {"timeout"}, code |-> "timeout"],
       [markers |-> {"authentication"}, code |-> "authentication_error"],
       [markers |-> {"not found", "404"}, code |-> "not_found"],
       [markers |-> {"invalid", "parameter", "validation"}, code |-> "invalid_params"],
       [markers |-> {"server", "API error", "status 5", "failed to create post"},
        code |-> "api_error"] >>

Matching(text) == {i \in DOMAIN MarkerClasses : MarkerClasses[i].markers \cap text # {}}

EarliestClassCode(text) ==
    IF Matching(text) = {}
      THEN "internal_error"
      ELSE MarkerClasses[CHOOSE i \in Matching(text) : \A j \in Matching(text) : i <= j].code

\* C18: every error response pairs code and status as in the taxonomy, and
\* the code of a handler error is that of the earliest marker class with a
\* marker in the text, internal_error when there is none.
C18_Taxonomy ==
    gwResp.hasError =>
        /\ <<gwResp.code, gwResp.status>> \in Taxonomy
        /\ gwResp.site \in {"handler", "timeout"} => gwResp.code = EarliestClassCode(gwResp.errText)

\* A handler error with markers of two classes was answered with the earlier.
C18_Witness ==
    /\ gwResp.site = "handler"
    /\ gwResp.errText = {"authentication", "API error"}
    /\ gwResp.code = "authentication_error" /\ gwResp.status = 401

\* C19: a handler error that is the client's ErrCircuitOpen is answered
\* service_unavailable with HTTP 503.
C19_CircuitOpen503 ==
    (gwResp.site = "handler" /\ CircuitOpenText \in gwResp.errText)
        => (gwResp.code = "service_unavailable" /\ gwResp.status = 503)

\* C20: a feed-analysis answered from a stale cache copy (the loader failed
\* and the stale copy was served) has a non-empty Warning and Source
\* "cache_stale"; a response with Source "api_fresh" is not one served stale.
C20_StaleIsMarked ==
    LET a == AnalyzeFeed(gwlReturn.val, gwlReturn.err) IN
    /\ gwlReturn.stale =>
          /\ ~a.err
          /\ a.resp.Source = "cache_stale"
          /\ a.resp.Warning # ""
    /\ (gwlReturn.key # "" /\ ~a.err /\ a.resp.Source = "api_fresh") => ~gwlReturn.stale

\* The cache as Set finds it.
CacheNow == [items |-> items, evictions |-> evictions, fallbackItems |-> fallbackItems]

\* What a later Get or GetWithLoader can tell of a cache: the live keys and
\* their values, the stale copies' keys and values, and the eviction count.
Observable(c) ==
    [live |-> [k \in DOMAIN c.items |-> c.items[k].value],
     stale |-> [k \in DOMAIN c.fallbackItems |-> c.fallbackItems[k].value],
     evictions |-> c.evictions]

\* C21: in every cache state, for every k, v and t, Set(k, v, t) performed
\* twice in succession leaves the same live keys, the same values and the
\* same eviction count as Set(k, v, t) performed once.
C21_SetIdempotent ==
    \A k \in Keys, v \in Values, d \in Durations :
       \A o1 \in OldestKeys(items) :
          LET once == AfterSet(CacheNow, k, v, d, o1) IN
          \A o2 \in OldestKeys(once.items) :
             Observable(AfterSet(once, k, v, d, o2)) = Observable(once)

\* Two Go values are the same: the same dynamic type and the same content.
SameValue(x, y) == x.type = y.type /\ x.v = y.v

\* C22: persisting a cache and loading the snapshot into a fresh cache with
\* the same options leaves in the live map exactly the persisted entries
\* that are unexpired at load time, each with the value, the expiration and
\* the last access it had, and no others.
C22_RoundTrip ==
    (loadReturn.done /\ loadReturn.from.ok) =>
       LET snap == loadReturn.from.items
           unexpired == {k \in DOMAIN snap : ~(loadReturn.at > snap[k].expiration)}
       IN  /\ DOMAIN loadReturn.live = unexpired
           /\ \A k \in unexpired :
                 /\ SameValue(loadReturn.live[k].value, snap[k].value)
                 /\ loadReturn.live[k].expiration = snap[k].expiration
                 /\ loadReturn.live[k].lastAccess = snap[k].lastAccess
\* C23: session updates are atomic for readers. Every change of tm.session
\* stores the whole tuple of one upstream response (accessJwt, refreshJwt,
\* did, expires-at), so the Session is at all times the initial empty one or
\* the tuple of a single response; and a GetToken that returns the cached
\* credential returns the accessJwt of that Session, judged against the
\* expires-at of the same Session.
C23_SessionNeverTorn ==
    /\ [](\/ session = NoSession
          \/ /\ session.did # 0
             /\ session.access.len # 0 => session.access.id = session.did)
    /\ [][/\ session' # session =>
                \E shape \in Shapes, r \in BOOLEAN : session' = Response(shape, r)
          /\ (tokenRet' # tokenRet /\ tokenRet'.ok) =>
                IF tokenRet'.via \in {"cached", "recheck"}
                  THEN /\ session' = session
                       /\ tokenRet'.tok = session.access
                       /\ tokenRet'.live = (now < session.expiresAt)
                  ELSE /\ tokenRet'.tok = session'.access
                       /\ tokenRet'.live = (now < session'.expiresAt)]_vars

\* C23 witness: a reader was handed the cached credential of a Session that
\* had replaced an earlier one while a background refresh was running.
C23_Witness ==
    /\ session.did >= 2
    /\ tokenRet.ok /\ tokenRet.via = "cached" /\ tokenRet.tok = session.access
    /\ \E s \in BgSlots : bg[s].pc # "none"
\* C24: each change of the breaker's state is one of CLOSED->OPEN on a
\* failure that brings the failure count to FailureThreshold, OPEN->HALF_OPEN
\* when ResetTimeout has elapsed, HALF_OPEN->CLOSED on success and
\* HALF_OPEN->OPEN on failure. On c.isCircuitOpen: it is set only by a
\* failure that brings the count to the threshold, and it is cleared only by
\* the half-open write of isCircuitBreakerOpen after ResetTimeout has
\* elapsed, never by a success recorded while the breaker is OPEN.
C24_BreakerTransitions ==
    [][/\ (~isCircuitOpen /\ isCircuitOpen') =>
             /\ currentFailures' = currentFailures + 1
             /\ currentFailures' >= FailureThreshold
       /\ (isCircuitOpen /\ ~isCircuitOpen') =>
             /\ ResetElapsed
             /\ \E p \in Callers : call[p].pc = "halfopen" /\ call'[p].pc = "ready"]_vars
\* C25: after the breaker has left OPEN because ResetTimeout elapsed, and
\* before any attempt has been recorded (the half-open trial state), a
\* failed attempt puts the breaker back to OPEN at once and records a new
\* open instant, whatever FailureThreshold is.
C25_TrialFailureReopens ==
    [][(trial /\ currentFailures' = currentFailures + 1) =>
          /\ isCircuitOpen'
          /\ circuitLastChecked' = now]_vars
\* An attempt of p's call comes back in this step, and it succeeded.
AttemptEnds(p) == call[p].pc = "inflight" /\ call'[p].pc # "inflight"
AttemptSucceeds(p) == AttemptEnds(p) /\ call'[p].pc = "idle" /\ cbReturn'.why = "ok"
\* The half-open write of isCircuitBreakerOpen happens in this step.
HalfOpenWrite == \E p \in Callers : call[p].pc = "halfopen" /\ call'[p].pc = "ready"

\* C26: currentFailures counts the failed attempts since the latest
\* successful attempt or half-open reset: every failed attempt adds one (a
\* retry inside a call, a permanent failure as well as a retryable one), a
\* successful attempt sets it to 0, the half-open reset sets it to 0 and
\* nothing else changes it; and the breaker is OPEN only if a failure brought
\* the counter to at least FailureThreshold.
C26_FailureCounter ==
    /\ [](isCircuitOpen => currentFailures >= FailureThreshold)
    /\ [][/\ \A p \in Callers :
                AttemptEnds(p) =>
                   currentFailures' = IF AttemptSucceeds(p) THEN 0 ELSE currentFailures + 1
          /\ HalfOpenWrite => currentFailures' = 0
          /\ ((\A p \in Callers : ~AttemptEnds(p)) /\ ~HalfOpenWrite) =>
                currentFailures' = currentFailures
          /\ (~isCircuitOpen /\ isCircuitOpen') =>
                /\ currentFailures' = currentFailures + 1
                /\ currentFailures' >= FailureThreshold]_vars

\* C26 witness: retryable and permanent failures of two calls have been
\* counted past the threshold, the last one a permanent failure.
C26_Witness ==
    /\ isCircuitOpen
    /\ currentFailures > FailureThreshold
    /\ cbReturn.why = "permanent"
    /\ \E p \in Callers : call[p].dials >= 2
\* C27: a Get/Post returns the registered fallback payload only when the
\* breaker was OPEN at the start of the call or when retryable failures
\* exhausted the retry budget; a call whose attempt failed with a permanent
\* error returns that error, also when its endpoint has a fallback.
C27_FallbackOnlyOpenOrExhausted ==
    /\ (HasFallback(cbReturn.ep) /\ cbReturn.body = FallbackResponses[cbReturn.ep]) =>
          cbReturn.why \in {"open", "exhausted"}
    /\ cbReturn.why = "permanent" =>
          (cbReturn.err = "permanent" /\ cbReturn.body = "nil")
\* The operation of the retryOperation returns in this step.
OperationReturns == login.posting /\ ~login'.posting

\* C28: in each retry loop, after an attempt fails with a non-retryable
\* error no further attempt is made and the loop ends with that error; after
\* a retryable failure another attempt is made unless the max-elapsed budget
\* is exhausted; after a success no further attempt is made. First the loop
\* of tm.client's Get/Post, then retryOperation, then the invocation counts:
\* the invocations are the retried failures and one more.
C28_RetryLoops ==
    /\ [][\A p \in Callers :
            AttemptEnds(p) =>
               \/ /\ call'[p] = IdleCall
                  /\ cbReturn'.why \in {"ok", "permanent"}
                  /\ cbReturn'.dials = call[p].dials
               \/ /\ call'[p] = IdleCall
                  /\ cbReturn'.why = "exhausted"
                  /\ cbReturn'.dials = call[p].dials
                  /\ \E d \in 1..MaxInterval : (now - call[p].start) + d > MaxElapsedTime
               \/ /\ call'[p].pc = "ready"
                  /\ call'[p].dials = call[p].dials
                  /\ \E d \in 1..MaxInterval :
                        /\ call'[p].wake = now + d
                        /\ (now - call[p].start) + d <= MaxElapsedTime]_vars
    /\ [][OperationReturns =>
            IF cbReturn.err = "nil"
              THEN ~login'.running /\ login'.last = "ok"
            ELSE IF cbReturn.err \in {"permanent", "ErrCircuitOpen"}
              THEN ~login'.running /\ login'.last = "permanent"
              ELSE \/ login'.running /\ login'.retried = login.retried + 1
                   \/ /\ ~login'.running /\ login'.last = "exhausted"
                      /\ \E d \in 0..AuthMaxInterval :
                            (now - login.since) + d > AuthMaxElapsedTime]_vars
    /\ [][login'.attempts # login.attempts =>
            login'.attempts = (IF login.running THEN login.attempts ELSE 0) + 1]_vars
    /\ [](login.attempts > 0 /\ ~login.posting =>
            login.attempts = login.retried + (IF login.running THEN 0 ELSE 1))

\* C28 witness: a retryOperation has returned success at its second
\* invocation, after one retryable failure, the failed invocation having
\* spent tm.client's own retry budget.
C28_Witness ==
    /\ ~login.running /\ login.last = "ok"
    /\ login.attempts = 2 /\ login.retried = 1
    /\ tokenRet.ok /\ tokenRet.via = "create"
\* GetToken is called by p in this step: its look at the Session under RLock.
GetTokenCalled(p) == tp[p].pc = "idle" /\ tp'[p].pc # "idle"
\* The Session's credential is valid, and it is within refreshThreshold of
\* its expiry.
NearExpiry == TokenValid /\ now + refreshThreshold > session.expiresAt
\* A refreshInBackground is started in this step; one is in flight: started
\* and not yet returned.
RefreshStarted == \E s \in BgSlots : bg[s].pc = "none" /\ bg'[s].pc = "start"
RefreshInFlight == \E s \in BgSlots : bg[s].pc # "none"

\* C29: a GetToken called while the credential is valid and within
\* refreshThreshold of its expiry returns the current credential at once,
\* with no upstream request, and starts a background refresh if and only if
\* none is in flight; called while the credential is valid and further from
\* its expiry, it starts none.
C29_NearExpiry ==
    [][\A p \in TMCallers :
          (GetTokenCalled(p) /\ TokenValid) =>
             /\ tp'[p].pc = "have"
             /\ tokenRet'.ok /\ tokenRet'.tok = session.access
             /\ session' = session /\ issued' = issued
             /\ IF NearExpiry
                  THEN RefreshStarted <=> ~RefreshInFlight
                  ELSE ~RefreshStarted]_vars
\* A step of the refreshInBackground invocation s.
BgStep(s) == bg'[s] # bg[s] /\ bg[s].pc # "none"

\* C30: a background refresh that fails (the upstream fails every attempt,
\* the response does not parse, or the refresh credential is empty, and then
\* nothing is posted) leaves the Session as it was; an invocation that took
\* the latch has returned only with refreshing false, whether it succeeded or
\* failed; and every invocation returns in the end.
C30_BackgroundRefreshEnds ==
    /\ [][\A s \in BgSlots :
            /\ (BgStep(s) /\ ~(bg'[s].pc = "unlatch" /\ bg'[s].how = "ok")) =>
                  session' = session /\ issued' = issued
            /\ (BgStep(s) /\ bg[s].pc = "start" /\ ~session.refresh) =>
                  bg'[s].pc # "post"
            /\ (bg[s].pc = "unlatch" /\ bg'[s].pc = "none") => ~refreshing']_vars
    /\ \A s \in BgSlots : (bg[s].pc # "none") ~> (bg[s].pc = "none")

\* C30 witness: a background refresh of an established Session has failed
\* and holds the latch, about to return.
C30_Witness ==
    /\ \E s \in BgSlots : bg[s].pc = "unlatch" /\ bg[s].how = "failed"
    /\ session.did # 0 /\ session.refresh
    /\ refreshing

\* C31: when GetToken falls back to backup credentials, the createSession
\* request for a backup entry is sent to the entry's own host when the entry
\* has a non-empty host, and to the primary host only when its host is empty.
C31_BackupHost ==
    (posted.sent /\ posted.cred >= 1)
      => posted.host = IF backups[posted.cred] # NoHost THEN backups[posted.cred]
                       ELSE PrimaryHost

\* C32: when session-create fails with the main credentials and with every
\* registered backup, GetToken returns an empty token together with the error
\* of the last attempt made (the last backup's when a backup is registered,
\* the main credentials' when none is), and the Session is left unchanged.
C32_AllFailLastError ==
    /\ [](failRet.done => /\ ~tokenRet.ok /\ tokenRet.tok = EmptyToken
                          /\ failRet.err = failRet.last)
    /\ [][(tp[LoginCaller].pc = "create" /\ tp'[LoginCaller].pc # "have")
            => session' = session]_vars

\* The GetToken callers that hold tm.mutex for a refresh or a create.
Establishing == {p \in TMCallers : tp[p].pc \in {"refresh", "create"}}
\* Session s holds a credential that getValidTokenUnlocked accepts now.
ValidNow(s) == s.access.len # 0 /\ now < s.expiresAt /\ isValidJWT(s.access)

\* C33: when several callers invoke GetToken concurrently while there is no
\* valid Session and the upstream answers with a well-formed credential, one
\* session-establishment request reaches the upstream: callers establish one
\* at a time, under tm.mutex; the Session that the first installs is valid
\* for every caller still waiting for the lock; and each of those, once it
\* has the lock, finds the Session valid on the re-check and returns its
\* credential with no upstream request (and, the Session being further than
\* refreshThreshold from its expiry, with no background refresh either).
C33_OneEstablishment ==
    /\ [](\A p, q \in Establishing : p = q /\ mutex = p)
    /\ [][\A p \in TMCallers :
            (p \in Establishing /\ tp'[p].pc = "have" /\ isValidJWT(session'.access))
              => /\ issued' = issued + 1
                 /\ \A q \in TMCallers : tp[q].pc = "lock" => ValidNow(session')]_vars
    /\ [][\A q \in TMCallers :
            (tp[q].pc = "lock" /\ tp'[q].pc # "lock" /\ ValidNow(session))
              => /\ tp'[q].pc = "have" /\ tp'[q].tok = session.access
                 /\ tokenRet'.ok /\ tokenRet'.via = "recheck"
                 /\ issued' = issued /\ session' = session /\ mutex' = mutex
                 /\ now + refreshThreshold <= session.expiresAt => bg' = bg]_vars

\* C33 witness: both callers found no valid Session at the same instant; one
\* established the first Session and still holds its credential, the other
\* was handed the same credential on its re-check, and the upstream has
\* issued one Session.
C33_Witness ==
    /\ issued = 1 /\ now = 0
    /\ tokenRet.ok /\ tokenRet.via = "recheck"
    /\ \A p \in TMCallers : tp[p].pc = "have" /\ tp[p].tok = session.access
    /\ isValidJWT(session.access)

\* C34: the bearer of the shared client is written only by the token
\* manager while it holds tm.mutex exclusively, never by a handler, so the
\* bearer never changes from the current Session's accessJwt back to the
\* credential of an earlier Session.
C34_BearerOnlyUnderLock ==
    [][bearer' # bearer =>
          /\ \E p \in TMCallers : mutex = p /\ tp[p].pc \in {"refresh", "create"}
          /\ bearer' = session'.access
          /\ bearer = session.access => bearer'.id >= bearer.id]_vars

\* C35: with MaxItems > 0, in every reachable state of a cache (after a
\* startup load from disk and any sequence of Set, Get, GetWithRenewal,
\* GetWithLoader, Delete, Clear and cleanup sweeps, several Sets at one clock
\* instant included) the live map holds at most MaxItems entries.
C35_AtMostMaxItems == Cardinality(DOMAIN items) <= MaxItems

\* C36: concurrent Cache operations (Set, also one that evicts, Get,
\* GetWithLoader, Delete, Clear, GetStats, cleanup, persistToDisk) always run
\* to completion: in no reachable state do pending operations block each
\* other forever on the map lock and the statistics lock, one holding c.mu
\* and waiting for c.statsMu while another holds c.statsMu and waits for c.mu.
C36_NoLockCycle ==
    ~ \E p, q \in CProcs :
         /\ mu.w = p /\ cp[p].pc = "evict" /\ statsMu # Unlocked
         /\ q \in statsMu.r /\ cp[q].pc = "stats" /\ mu.w # ""

\* C37: the Session is never overwritten by the result of a refresh that
\* was started from an older Session: when a background refresh has read its
\* refresh credential and the Session is replaced before it finishes, by a
\* refresh or create under the exclusive lock, its response is not
\* installed; a background refresh installs its response only over the
\* Session whose refresh credential it read.
C37_NoStaleOverwrite ==
    [][\A s \in BgSlots :
          (bg[s].pc = "post" /\ bg'[s].pc = "unlatch" /\ session' # session)
            => bg[s].from = session.did]_vars

\* C38: every createRecord request sent by SubmitPost carries a bearer that
\* passes the token manager's validity check at the time the request is
\* issued: it is the accessJwt of the Session, well-formed, and its
\* expires-at has not passed, also when a Session (and DID) existed before
\* the call.
C38_SubmitWithValidBearer ==
    submitted.sent => /\ submitted.current
                      /\ submitted.bearer.len # 0
                      /\ isValidJWT(submitted.bearer)

\* The instants recorded for ip in the map reqs that lie in the window now.
LiveTimes(reqs, ip) == IF ip \in DOMAIN reqs THEN ValidTimes(reqs[ip], now) ELSE <<>>

\* C39: the decision of Allow(k) depends only on the instants of the earlier
\* admitted calls for k that lie in the current window: it admits exactly
\* when fewer than maxRequests of them do. A rejected call records nothing,
\* for no key, and a call for k leaves what is recorded for every other key
\* as it was, so calls for other keys never change the decision for k.
C39_AllowFrame ==
    [][rlReturn' # rlReturn =>
          LET k == rlReturn'.ip IN
          /\ rlReturn'.ok <=> AdmittedIn(k, now) < maxRequests
          /\ ~rlReturn'.ok =>
                /\ admitted' = admitted
                /\ LiveTimes(requests', k) = LiveTimes(requests, k)
          /\ rlReturn'.ok =>
                /\ admitted' = [admitted EXCEPT ![k] = Append(@, now)]
                /\ LiveTimes(requests', k) = Append(LiveTimes(requests, k), now)
          /\ \A j \in IPs \ {k} : LiveTimes(requests', j) = LiveTimes(requests, j)]_vars

\* C39 witness: a call for ip1 was rejected at an instant at which ip2 had
\* admitted calls in its window, and ip1 had been admitted again after an
\* earlier window of its own had passed.
C39_Witness ==
    /\ rlReturn.ip = "ip1" /\ ~rlReturn.ok /\ rlReturn.at = now
    /\ AdmittedIn("ip2", now) >= 1
    /\ Len(admitted["ip1"]) > maxRequests

\* C40: the periodic sweep is invisible to callers: for every sequence of
\* Allow calls and instants, the limiter, which sweeps every cleanupPeriod,
\* gives the same answers as one that never sweeps; and a sweep removes only
\* instants already outside the window and only keys whose list became
\* empty, every call that does not sweep leaving the other keys as they are.
C40_SweepInvisible ==
    [][(rlReturn' # rlReturn \/ unswept' # unswept \/ requests' # requests) =>
          LET k == rlReturn'.ip IN
          /\ rlReturn'.ok = unswept'.ok
          /\ \A ip \in IPs \ {k} :
                IF now - lastCleanup > cleanupPeriod
                  THEN IF LiveTimes(requests, ip) = <<>>
                         THEN ip \notin DOMAIN requests'
                         ELSE ip \in DOMAIN requests'
                              /\ requests'[ip] = LiveTimes(requests, ip)
                  ELSE /\ ip \in DOMAIN requests' <=> ip \in DOMAIN requests
                       /\ ip \in DOMAIN requests => requests'[ip] = requests[ip]]_vars

\* C40 witness: a sweep has deleted the key of a caller admitted earlier,
\* which the limiter that never sweeps still holds, and the call that swept
\* got the same answer from both.
C40_Witness ==
    /\ lastCleanup > 0 /\ rlReturn.at = lastCleanup
    /\ rlReturn.ok = unswept.ok
    /\ \E ip \in IPs :
          /\ Len(admitted[ip]) > 0
          /\ ip \notin DOMAIN requests
          /\ ip \in DOMAIN unswept.requests
====
